---- MODULE Spec2Model ----
(***************************************************************************)
(* Word Clock Grace: the glyph-to-DXF export pipeline (dxfExporter.ts) and *)
(* the font loader with its process-wide cache (fontPathExtractor.ts).     *)
(*                                                                         *)
(* JavaScript numbers are modelled as exact extended rationals <<n, d>>:   *)
(* d > 0 is the finite value n/d in lowest terms, <<0, 0>> is NaN,         *)
(* <<1, 0>> is +Infinity and <<-1, 0>> is -Infinity.  Floating-point       *)
(* rounding is not modelled; NaN and Infinity propagation is.              *)
(***************************************************************************)
EXTENDS Integers, Sequences, FiniteSets, TLC

(***************************************************************************)
(* Numbers                                                                 *)
(***************************************************************************)
\* The one element of a singleton set.  The({ e : v \in {x} }) is e with x
\* computed once and named v: the definitions below use it wherever a value
\* is used more than once.
The(S) == CHOOSE x \in S : TRUE

Sign(n) == IF n > 0 THEN 1 ELSE IF n < 0 THEN -1 ELSE 0

Abs(n) == IF n < 0 THEN -n ELSE n

RECURSIVE GCD(_, _)
GCD(a, b) == The({ IF v = 0 THEN u ELSE GCD(v, u % v) : u \in {a}, v \in {b} })

Norm(n, d) ==
    The({ IF v = 0 THEN <<Sign(u), 0>>
          ELSE The({ <<(Sign(v) * u) \div g, Abs(v) \div g>> : g \in {GCD(Abs(u), Abs(v))} }) :
          u \in {n}, v \in {d} })

NaN == <<0, 0>>
Infinity == <<1, 0>>
R(n) == <<n, 1>>
Q(n, d) == Norm(n, d)

\* !isNaN(x) && isFinite(x)
IsFinite(a) == a[2] # 0

RNeg(a) == The({ <<-u[1], u[2]>> : u \in {a} })

RAdd(a, b) ==
    The({ IF u[2] = 0 /\ v[2] = 0
          THEN (IF u = v THEN u ELSE NaN)
          ELSE Norm(u[1] * v[2] + v[1] * u[2], u[2] * v[2]) :
          u \in {a}, v \in {b} })

RSub(a, b) == RAdd(a, RNeg(b))

RMul(a, b) == The({ Norm(u[1] * v[1], u[2] * v[2]) : u \in {a}, v \in {b} })

RDiv(a, b) == The({ RMul(a, IF v = NaN THEN NaN ELSE Norm(v[2], v[1])) : v \in {b} })

\* a < b; every comparison with NaN is false
RLt(a, b) ==
    The({ /\ u # NaN
          /\ v # NaN
          /\ IF u[2] = 0 /\ v[2] = 0 THEN u[1] < v[1]
             ELSE u[1] * v[2] < v[1] * u[2] :
          u \in {a}, v \in {b} })

\* Math.max and Math.min: NaN when either argument is NaN
MathMax(a, b) ==
    The({ IF u = NaN \/ v = NaN THEN NaN ELSE IF RLt(u, v) THEN v ELSE u : u \in {a}, v \in {b} })

MathMin(a, b) ==
    The({ IF u = NaN \/ v = NaN THEN NaN ELSE IF RLt(v, u) THEN v ELSE u : u \in {a}, v \in {b} })

Half(a) == RDiv(a, R(2))

Pt(x, y) == [x |-> x, y |-> y]

ValidPoint(p) == IsFinite(p.x) /\ IsFinite(p.y)

SelectValid(points) == SelectSeq(points, ValidPoint)

(***************************************************************************)
(* Contour simplification (fontPathExtractor.ts).  Distances are compared  *)
(* exactly on an integer grid of GridScale units per millimetre; the       *)
(* inputs of the model are chosen so that every finite coordinate that     *)
(* reaches the simplifier lies on that grid (see GridExact).               *)
(***************************************************************************)
GridScale == 60 * 60

OnGrid(a) == IsFinite(a) /\ (a[1] * GridScale) % a[2] = 0

GridOf(a) == (a[1] * GridScale) \div a[2]

\* a > b * sqrt(l) for naturals a, b, l with b > 0, without overflow
ExceedsSqrt(a, b, l) ==
    The({ IF q >= 46341 THEN TRUE
          ELSE IF q * q > l THEN TRUE
          ELSE IF (q + 1) * (q + 1) <= l THEN FALSE
          ELSE 2 * q * r * b + r * r > (l - q * q) * b * b :
          q \in {a \div b}, r \in {a % b} })

\* perpendicularDistance, as an order-preserving key of the distance to
\* one chord: for a proper chord the numerator |dy*px - dx*py + ex*sy -
\* ey*sx| (written relative to lineStart, which is the same number), for a
\* degenerate chord the squared distance to lineStart; both in grid units.
perpendicularDistance(point, lineStart, lineEnd) ==
    The({ IF dx = 0 /\ dy = 0 THEN px * px + py * py
          ELSE Abs(dy * px - dx * py) :
          px \in {GridOf(point.x) - GridOf(lineStart.x)},
          py \in {GridOf(point.y) - GridOf(lineStart.y)},
          dx \in {GridOf(lineEnd.x) - GridOf(lineStart.x)},
          dy \in {GridOf(lineEnd.y) - GridOf(lineStart.y)} })

\* distance > tolerance, for a key returned by perpendicularDistance
DistanceExceeds(key, lineStart, lineEnd, tolerance) ==
    The({ IF dx = 0 /\ dy = 0 THEN key > t * t
          ELSE ExceedsSqrt(key, t, dx * dx + dy * dy) :
          dx \in {GridOf(lineEnd.x) - GridOf(lineStart.x)},
          dy \in {GridOf(lineEnd.y) - GridOf(lineStart.y)},
          t  \in {GridOf(tolerance)} })

RECURSIVE removeColinearLoop(_, _, _, _)
removeColinearLoop(validPoints, i, result, tolerance) ==
    IF i > Len(validPoints) - 1
    THEN Append(result, validPoints[Len(validPoints)])
    ELSE The({ removeColinearLoop(validPoints, i + 1, r, tolerance) :
               r \in { LET prev == result[Len(result)]
                           curr == validPoints[i]
                           next == validPoints[i + 1]
                           distance == perpendicularDistance(curr, prev, next)
                       IN  IF DistanceExceeds(distance, prev, next, tolerance)
                           THEN Append(result, curr) ELSE result } })

\* removeColinearPoints as it would be without the final push of the last
\* point
removeColinearPointsWithoutLast(points, tolerance) ==
    The({ IF Len(pts) <= 2 THEN pts
          ELSE The({ IF Len(validPoints) <= 2 THEN validPoints
                     ELSE The({ SubSeq(r, 1, Len(r) - 1) :
                                r \in {removeColinearLoop(validPoints, 2, <<validPoints[1]>>,
                                                          tolerance)} }) :
                     validPoints \in {SelectValid(pts)} }) :
          pts \in {points} })

removeColinearPoints(points, tolerance) ==
    The({ IF Len(pts) <= 2 THEN pts
          ELSE The({ IF Len(validPoints) <= 2 THEN validPoints
                     ELSE removeColinearLoop(validPoints, 2, <<validPoints[1]>>, tolerance) :
                     validPoints \in {SelectValid(pts)} }) :
          pts \in {points} })

\* the search loop of simplifyPolyline: <<maxDistance, maxIndex>>, the index
\* counted from 1 (the source's maxIndex + 1)
RECURSIVE MaxIndexLoop(_, _, _, _)
MaxIndexLoop(validPoints, i, maxDistance, maxIndex) ==
    IF i > Len(validPoints) - 1 THEN <<maxDistance, maxIndex>>
    ELSE The({ IF distance > maxDistance
               THEN MaxIndexLoop(validPoints, i + 1, distance, i)
               ELSE MaxIndexLoop(validPoints, i + 1, maxDistance, maxIndex) :
               distance \in {perpendicularDistance(validPoints[i], validPoints[1],
                                                   validPoints[Len(validPoints)])} })

RECURSIVE simplifyPolyline(_, _)
simplifyPolyline(points, tolerance) ==
    The({ IF Len(pts) <= 2 THEN pts
          ELSE The({ IF Len(validPoints) <= 2 THEN validPoints
                     ELSE The({ IF DistanceExceeds(m[1], validPoints[1],
                                                   validPoints[Len(validPoints)], tolerance)
                                THEN The({ SubSeq(left, 1, Len(left) - 1) \o right :
                                           left \in {simplifyPolyline(SubSeq(validPoints, 1, m[2]),
                                                                      tolerance)},
                                           right \in {simplifyPolyline(
                                                        SubSeq(validPoints, m[2], Len(validPoints)),
                                                        tolerance)} })
                                ELSE <<validPoints[1], validPoints[Len(validPoints)]>> :
                                m \in {MaxIndexLoop(validPoints, 2, 0, 1)} }) :
                     validPoints \in {SelectValid(pts)} }) :
          pts \in {points} })

(***************************************************************************)
(* Glyph outlines.  A path is [commands, bbox, bboxThrows]; a command has  *)
(* a type M, L, C, Q or Z and the coordinates x, y, x1, y1, x2, y2.        *)
(***************************************************************************)
Zero == R(0)

CmdM(x, y) == [type |-> "M", x |-> x, y |-> y, x1 |-> Zero, y1 |-> Zero, x2 |-> Zero, y2 |-> Zero]
CmdL(x, y) == [type |-> "L", x |-> x, y |-> y, x1 |-> Zero, y1 |-> Zero, x2 |-> Zero, y2 |-> Zero]
CmdQ(x1, y1, x, y) == [type |-> "Q", x |-> x, y |-> y, x1 |-> x1, y1 |-> y1, x2 |-> Zero, y2 |-> Zero]
CmdC(x1, y1, x2, y2, x, y) == [type |-> "C", x |-> x, y |-> y, x1 |-> x1, y1 |-> y1, x2 |-> x2, y2 |-> y2]
CmdZ == [type |-> "Z", x |-> Zero, y |-> Zero, x1 |-> Zero, y1 |-> Zero, x2 |-> Zero, y2 |-> Zero]
\* an entry of path.commands that is no command object: reading it throws
CmdBad == [type |-> "bad", x |-> Zero, y |-> Zero, x1 |-> Zero, y1 |-> Zero, x2 |-> Zero, y2 |-> Zero]

BBox(x1, y1, x2, y2) == [x1 |-> x1, y1 |-> y1, x2 |-> x2, y2 |-> y2]

NoPath == [commands |-> <<>>, bbox |-> BBox(Zero, Zero, Zero, Zero), bboxThrows |-> FALSE, none |-> TRUE]

Path(commands, bbox, bboxThrows) ==
    [commands |-> commands, bbox |-> bbox, bboxThrows |-> bboxThrows, none |-> FALSE]

\* the glyph of createFallbackFont: glyph.getPath(x, y, fontSize) at x = y = 0
FallbackGlyphPath(fontSize) ==
    The({ Path(<< CmdM(x, y),
                  CmdL(RAdd(x, width), y),
                  CmdL(RAdd(x, width), RAdd(y, height)),
                  CmdL(x, RAdd(y, height)),
                  CmdL(x, RAdd(y, RMul(height, Q(3, 10)))),
                  CmdL(RAdd(x, RMul(width, Q(2, 10))), RAdd(y, RMul(height, Q(3, 10)))),
                  CmdL(RAdd(x, RMul(width, Q(2, 10))), y),
                  CmdZ >>,
               BBox(x, y, RAdd(x, width), RAdd(y, height)),
               FALSE) :
          x \in {Zero}, y \in {Zero},
          width \in {RMul(fontSize, Q(6, 10))}, height \in {RMul(fontSize, Q(8, 10))} })

createFallbackFont == [kind |-> "synthetic", name |-> "", inst |-> 0]

\* The glyphs of a loaded font file, at font size 1 (one em), in the path
\* space of glyph.getPath (y grows downwards, the baseline is y = 0).  What
\* a loaded font does for a character is the font file's business; these
\* are the behaviours extractGlyphPath and addVectorPaths distinguish:
\*   "A" two contours (outline and hole), "W" one contour, "w" a square, "O" four
\*   quadratic curves that end where they start, "?" no glyph (charToGlyph
\*   gives null), "!" a glyph whose getPath throws at every size but the
\*   reference size, "#" a path whose getBoundingBox throws, "%" a path
\*   with a broken command list.
GlyphChars == {"A", "W", "w", "O", "!", "#", "%"}

UnitCommands(char) ==
    CASE char = "A" ->
            << CmdM(R(0), R(0)), CmdL(Q(1, 2), R(-1)), CmdL(R(1), R(0)), CmdZ,
               CmdM(Q(3, 8), Q(-1, 4)), CmdL(Q(1, 2), Q(-1, 2)), CmdL(Q(5, 8), Q(-1, 4)), CmdZ >>
      [] char = "W" ->
            << CmdM(R(0), R(-1)), CmdL(Q(1, 4), R(0)), CmdL(Q(1, 2), Q(-1, 2)),
               CmdL(Q(3, 4), R(0)), CmdL(R(1), R(-1)), CmdZ >>
      [] char = "O" ->
            << CmdM(Q(1, 2), R(0)), CmdQ(R(1), R(0), R(1), Q(-1, 2)),
               CmdQ(R(1), R(-1), Q(1, 2), R(-1)), CmdQ(R(0), R(-1), R(0), Q(-1, 2)),
               CmdQ(R(0), R(0), Q(1, 2), R(0)), CmdZ >>
      [] char = "%" ->
            << CmdM(R(0), R(0)), CmdBad, CmdL(R(1), R(-1)), CmdZ >>
      [] OTHER ->
            << CmdM(R(0), R(0)), CmdL(R(1), R(0)), CmdL(R(1), R(-1)), CmdL(R(0), R(-1)), CmdZ >>

UnitBBox(char) == BBox(R(0), R(-1), R(1), R(0))

ScaleCommand(c, fontSize) ==
    The({ [type |-> cmd.type,
           x  |-> RMul(cmd.x, fs),  y  |-> RMul(cmd.y, fs),
           x1 |-> RMul(cmd.x1, fs), y1 |-> RMul(cmd.y1, fs),
           x2 |-> RMul(cmd.x2, fs), y2 |-> RMul(cmd.y2, fs)] :
          cmd \in {c}, fs \in {fontSize} })

RefSize == 1000

\* extractGlyphPath as it would be if a character without a glyph made it
\* throw instead of return null: the caller then sees a failed cell
extractGlyphPathMissingThrows(font, char, fontSize) ==
    The({ IF font.kind = "synthetic" THEN FallbackGlyphPath(fs)
          ELSE IF char \notin GlyphChars THEN Path(<<>>, BBox(Zero, Zero, Zero, Zero), TRUE)
          ELSE IF char = "!" /\ fs # R(RefSize) THEN NoPath
          ELSE The({ Path([i \in 1..Len(cmds) |-> ScaleCommand(cmds[i], fs)] \o <<>>,
                          BBox(RMul(b.x1, fs), RMul(b.y1, fs), RMul(b.x2, fs), RMul(b.y2, fs)),
                          char = "#") :
                     cmds \in {UnitCommands(char)}, b \in {UnitBBox(char)} }) :
          fs \in {fontSize} })

\* extractGlyphPath: the path of one character, or NoPath when the font has
\* no glyph for it or charToGlyph / getPath throws (the catch returns null)
extractGlyphPath(font, char, fontSize) ==
    The({ IF font.kind = "synthetic" THEN FallbackGlyphPath(fs)
          ELSE IF char \notin GlyphChars THEN NoPath
          ELSE IF char = "!" /\ fs # R(RefSize) THEN NoPath
          ELSE The({ Path([i \in 1..Len(cmds) |-> ScaleCommand(cmds[i], fs)] \o <<>>,
                          BBox(RMul(b.x1, fs), RMul(b.y1, fs), RMul(b.x2, fs), RMul(b.y2, fs)),
                          char = "#") :
                     cmds \in {UnitCommands(char)}, b \in {UnitBBox(char)} }) :
          fs \in {fontSize} })

(***************************************************************************)
(* Serialization (fontPathExtractor.ts, dxfExporter.ts).  An entity string *)
(* is modelled by the record of its group values.                          *)
(***************************************************************************)
Million == 1000 * 1000

\* Number.prototype.toFixed(6) followed by reading the text back: the value
\* rounded to 6 decimals, half away from zero; NaN and Infinity print as such
ToFixed6(a) ==
    The({ IF ~IsFinite(v) THEN v
          ELSE LET n  == Abs(v[1])
                   d  == v[2]
                   ip == n \div d
                   r0 == n % d
                   d1 == (r0 * 1000) \div d
                   r1 == (r0 * 1000) % d
                   d2 == (r1 * 1000) \div d
                   r2 == (r1 * 1000) % d
                   up == IF 2 * r2 >= d THEN 1 ELSE 0
               IN  Norm(Sign(v[1]) * (ip * Million + d1 * 1000 + d2 + up), Million) :
          v \in {a} })

EmptyEntity == [type |-> "EMPTY"]

\* createDXFPolyline: "" when fewer than 2 valid points remain
createDXFPolyline(points, closed, handle) ==
    The({ IF Len(validPoints) < 2 THEN EmptyEntity
          ELSE [type |-> "LWPOLYLINE", handle |-> handle, closed |-> closed,
                points |-> [i \in 1..Len(validPoints) |->
                               Pt(ToFixed6(validPoints[i].x), ToFixed6(validPoints[i].y))] \o <<>>] :
          validPoints \in {SelectValid(points)} })

LineEntity(x1, y1, x2, y2, handle, fmt) ==
    [type |-> "LINE", handle |-> handle, fmt |-> fmt,
     x1 |-> x1, y1 |-> y1, x2 |-> x2, y2 |-> y2]

\* dxfLine: coordinates written with Number.prototype.toString
dxfLine(x1, y1, x2, y2, handle) == LineEntity(x1, y1, x2, y2, handle, "toString")

CubicSegments == 8
QuadSegments == 6

cubicBezierToPoints(x1, y1, x2, y2, x3, y3, x4, y4, segments) ==
    [k \in 1..(segments + 1) |->
        LET t   == Q(k - 1, segments)
            u   == RSub(R(1), t)
            tt  == RMul(t, t)
            uu  == RMul(u, u)
            uuu == RMul(uu, u)
            ttt == RMul(tt, t)
            B(a, b, c, d) ==
                RAdd(RAdd(RAdd(RMul(uuu, a), RMul(RMul(RMul(R(3), uu), t), b)),
                          RMul(RMul(RMul(R(3), u), tt), c)),
                     RMul(ttt, d))
        IN  Pt(B(x1, x2, x3, x4), B(y1, y2, y3, y4))]

quadraticBezierToPoints(x1, y1, x2, y2, x3, y3, segments) ==
    [k \in 1..(segments + 1) |->
        LET t == Q(k - 1, segments)
            u == RSub(R(1), t)
            B(a, b, c) ==
                RAdd(RAdd(RMul(RMul(u, u), a), RMul(RMul(RMul(R(2), u), t), b)),
                     RMul(RMul(t, t), c))
        IN  Pt(B(x1, x2, x3), B(y1, y2, y3))]

\* the grouping loop of pathToDXFEntities: a new group at every M that
\* follows a command; every command but Z is pushed
RECURSIVE GroupCommands(_, _, _, _)
GroupCommands(commands, i, pathGroups, currentPath) ==
    IF i > Len(commands)
    THEN (IF Len(currentPath) > 0 THEN Append(pathGroups, currentPath) ELSE pathGroups)
    ELSE The({ GroupCommands(commands, i + 1, groups1,
                             IF command.type # "Z" THEN Append(path1, command) ELSE path1) :
               command \in {commands[i]},
               groups1 \in {IF commands[i].type = "M" /\ Len(currentPath) > 0
                            THEN Append(pathGroups, currentPath) ELSE pathGroups},
               path1   \in {IF commands[i].type = "M" /\ Len(currentPath) > 0
                            THEN <<>> ELSE currentPath} })

XOut(x, horizontalStretch, offsetX) == RAdd(RMul(x, horizontalStretch), offsetX)

\* Flip Y coordinate for DXF
YOut(y, offsetY) == RAdd(RNeg(y), offsetY)

\* distance > 0.1 between the last and the first point (case 'Z')
FartherThanTenth(lastPoint, firstPoint) ==
    LET dx == RSub(lastPoint.x, firstPoint.x)
        dy == RSub(lastPoint.y, firstPoint.y)
    IN  RLt(Q(1, 100), RAdd(RMul(dx, dx), RMul(dy, dy)))

\* the switch over one group's commands: st is [pts, cx, cy]
RECURSIVE GroupPoints(_, _, _, _, _, _)
GroupPoints(pathGroup, i, st, offsetX, offsetY, horizontalStretch) ==
    IF i > Len(pathGroup) THEN st.pts
    ELSE The({ GroupPoints(pathGroup, i + 1, st1, offsetX, offsetY, horizontalStretch) :
               st1 \in { LET command == pathGroup[i]
                             ex == XOut(command.x, horizontalStretch, offsetX)
                             ey == YOut(command.y, offsetY)
                         IN  CASE command.type \in {"M", "L"} ->
                                    [pts |-> Append(st.pts, Pt(ex, ey)), cx |-> ex, cy |-> ey]
                               [] command.type = "C" ->
                                    LET b == cubicBezierToPoints(st.cx, st.cy,
                                                 XOut(command.x1, horizontalStretch, offsetX),
                                                 YOut(command.y1, offsetY),
                                                 XOut(command.x2, horizontalStretch, offsetX),
                                                 YOut(command.y2, offsetY),
                                                 ex, ey, CubicSegments)
                                    IN  [pts |-> st.pts \o SubSeq(b, 2, Len(b)), cx |-> ex, cy |-> ey]
                               [] command.type = "Q" ->
                                    LET b == quadraticBezierToPoints(st.cx, st.cy,
                                                 XOut(command.x1, horizontalStretch, offsetX),
                                                 YOut(command.y1, offsetY),
                                                 ex, ey, QuadSegments)
                                    IN  [pts |-> st.pts \o SubSeq(b, 2, Len(b)), cx |-> ex, cy |-> ey]
                               [] command.type = "Z" ->
                                    IF Len(st.pts) > 0 /\ FartherThanTenth(st.pts[Len(st.pts)], st.pts[1])
                                    THEN [st EXCEPT !.pts = Append(st.pts, st.pts[1])]
                                    ELSE st
                               [] OTHER -> st } })

\* the points of one group after validation and simplification; <<>> when
\* the group yields no polyline
SimplifiedPoints(polylinePoints) ==
    The({ IF Len(pts) < 2 THEN <<>>
          ELSE The({ IF Len(validPoints) < 2 THEN <<>>
                     ELSE SelectValid(simplifyPolyline(removeColinearPoints(validPoints, Q(1, 100)),
                                                       Q(2, 100))) :
                     validPoints \in {SelectValid(pts)} }) :
          pts \in {polylinePoints} })

\* the loop over the groups as it would be if the handle were taken from
\* the counter before the group is examined: a dropped group uses up a handle
RECURSIVE EmitGroupsCountingDropped(_, _, _, _, _, _, _)
EmitGroupsCountingDropped(pathGroups, g, entities, handleCounter, offsetX, offsetY, horizontalStretch) ==
    IF g > Len(pathGroups) THEN [entities |-> entities, nextHandle |-> handleCounter, threw |-> FALSE]
    ELSE The({ The({ EmitGroupsCountingDropped(pathGroups, g + 1,
                         IF Len(simplifiedPoints) >= 2 /\ polyline # EmptyEntity
                         THEN Append(entities, polyline) ELSE entities,
                         handleCounter + 1, offsetX, offsetY, horizontalStretch) :
                     polyline \in {createDXFPolyline(simplifiedPoints, TRUE, handleCounter)} }) :
               simplifiedPoints \in
                   {SimplifiedPoints(GroupPoints(pathGroups[g], 1,
                                                 [pts |-> <<>>, cx |-> Zero, cy |-> Zero],
                                                 offsetX, offsetY, horizontalStretch))} })

RECURSIVE EmitGroups(_, _, _, _, _, _, _)
EmitGroups(pathGroups, g, entities, handleCounter, offsetX, offsetY, horizontalStretch) ==
    IF g > Len(pathGroups) THEN [entities |-> entities, nextHandle |-> handleCounter, threw |-> FALSE]
    ELSE The({ The({ IF Len(simplifiedPoints) >= 2 /\ polyline # EmptyEntity
                     THEN EmitGroups(pathGroups, g + 1, Append(entities, polyline),
                                     handleCounter + 1, offsetX, offsetY, horizontalStretch)
                     ELSE EmitGroups(pathGroups, g + 1, entities, handleCounter,
                                     offsetX, offsetY, horizontalStretch) :
                     polyline \in {createDXFPolyline(simplifiedPoints, TRUE, handleCounter)} }) :
               simplifiedPoints \in
                   {SimplifiedPoints(GroupPoints(pathGroups[g], 1,
                                                 [pts |-> <<>>, cx |-> Zero, cy |-> Zero],
                                                 offsetX, offsetY, horizontalStretch))} })

\* pathToDXFEntities: [entities, nextHandle]; threw when reading a command
\* throws (the caller's catch sees it)
pathToDXFEntities(path, offsetX, offsetY, startHandle, horizontalStretch) ==
    The({ IF Len(commands) = 0
          THEN [entities |-> <<>>, nextHandle |-> startHandle, threw |-> FALSE]
          ELSE IF \E i \in 1..Len(commands) : commands[i].type = "bad"
          THEN [entities |-> <<>>, nextHandle |-> startHandle, threw |-> TRUE]
          ELSE The({ EmitGroups(pathGroups, 1, <<>>, startHandle, ox, oy, hs) :
                     pathGroups \in {GroupCommands(commands, 1, <<>>, <<>>)},
                     ox \in {offsetX}, oy \in {offsetY}, hs \in {horizontalStretch} }) :
          commands \in {path.commands} })

\* the LINE entities of one polyline as they would be without the
\* wrap-around: one per pair of neighbouring points
PolylineToLinesOpen(entity, handle) ==
    The({ IF Len(points) < 2 THEN <<>>
          ELSE [i \in 1..(Len(points) - 1) |->
                   LET start == points[i]
                       end   == points[i + 1]
                   IN  LineEntity(ToFixed6(start.x), ToFixed6(start.y),
                                  ToFixed6(end.x), ToFixed6(end.y), h + i - 1, "toFixed6")] \o <<>> :
          points \in {SelectValid(entity.points)}, h \in {handle} })

\* the LINE entities of one polyline: one per point, the last closing the ring
PolylineToLines(entity, handle) ==
    The({ IF Len(points) < 2 THEN <<>>
          ELSE [i \in 1..Len(points) |->
                   LET start == points[i]
                       end   == points[(i % Len(points)) + 1]
                   IN  LineEntity(ToFixed6(start.x), ToFixed6(start.y),
                                  ToFixed6(end.x), ToFixed6(end.y), h + i - 1, "toFixed6")] \o <<>> :
          points \in {SelectValid(entity.points)}, h \in {handle} })

\* convertPolylinesToLines: [lines, counter], counter being handleCounter.value
\* after the call (it is advanced once per LINE)
RECURSIVE convertPolylinesToLines(_, _, _, _)
convertPolylinesToLines(polylineEntities, e, lineEntities, counter) ==
    IF e > Len(polylineEntities) THEN [lines |-> lineEntities, counter |-> counter]
    ELSE The({ convertPolylinesToLines(polylineEntities, e + 1, lines1,
                   IF polylineEntities[e].type = "LWPOLYLINE"
                   THEN counter + (Len(lines1) - Len(lineEntities)) ELSE counter) :
               lines1 \in { lineEntities \o
                            (IF polylineEntities[e].type = "LWPOLYLINE"
                             THEN PolylineToLines(polylineEntities[e], counter)
                             ELSE IF polylineEntities[e].type = "EMPTY" THEN <<>>
                             ELSE <<polylineEntities[e]>>) } })

(***************************************************************************)
(* Layouts and export configurations: the inputs of exportGridToDXF.       *)
(***************************************************************************)
Rows == 2
Cols == 2

WordPos(word, startRow, startCol, direction) ==
    [word |-> word, startRow |-> startRow, startCol |-> startCol, direction |-> direction]

\* the words a layout may hold, in layout order; letters that fall outside
\* the grid are dropped by createLetterGrid
WordList ==
    << WordPos(<<"A", "W", "O">>, 0, 0, "horizontal"),
       WordPos(<<"O", "%", "A">>, 1, 0, "horizontal"),
       WordPos(<<"?", "!", "W">>, 0, 0, "vertical"),
       WordPos(<<"#", "O", "A">>, 0, 1, "vertical"),
       WordPos(<<"w">>, 1, 1, "horizontal") >>

Layouts ==
    { [gridWidth |-> Cols, gridHeight |-> Rows,
       words |-> SelectSeq(WordList, LAMBDA w : w \in ws)] :
      ws \in SUBSET { WordList[i] : i \in 1..Len(WordList) } }

\* createLetterGrid: grid[row + 1][col + 1], blank cells are " "
RECURSIVE PlaceWords(_, _, _)
PlaceWords(layout, k, grid) ==
    IF k > Len(layout.words) THEN grid
    ELSE LET w == layout.words[k]
             RowOf(i) == IF w.direction = "horizontal" THEN w.startRow ELSE w.startRow + i
             ColOf(i) == IF w.direction = "horizontal" THEN w.startCol + i ELSE w.startCol
             Hit(r, c) == { i \in 0..(Len(w.word) - 1) : RowOf(i) = r /\ ColOf(i) = c }
         IN  PlaceWords(layout, k + 1,
                 [r \in 1..layout.gridHeight |-> [c \in 1..layout.gridWidth |->
                     IF Hit(r - 1, c - 1) = {} THEN grid[r][c]
                     ELSE w.word[(CHOOSE i \in Hit(r - 1, c - 1) :
                                     \A j \in Hit(r - 1, c - 1) : j <= i) + 1]]])

createLetterGrid(layout) ==
    PlaceWords(layout, 1, [r \in 1..layout.gridHeight |-> [c \in 1..layout.gridWidth |-> " "]])

defaultConfig ==
    [letterSize |-> R(10), gridSpacing |-> Q(5, 2), gridSpacingY |-> R(3), margin |-> R(2),
     fontName |-> "Ruler Stencil Regular", addBorder |-> TRUE, addGridLines |-> FALSE,
     useVectorPaths |-> TRUE, testMode |-> FALSE, letterPaddingPercent |-> Q(1, 10),
     horizontalStretch |-> Q(155, 100), wStretch |-> Q(9, 10), centerHorizontally |-> TRUE]

\* { ...defaultConfig, ...config }
MergeConfig(config) ==
    [f \in DOMAIN defaultConfig |-> IF f \in DOMAIN config THEN config[f] ELSE defaultConfig[f]]

With(config, f, v) ==
    [g \in (DOMAIN config) \cup {f} |-> IF g = f THEN v ELSE config[g]]

\* a partial configuration whose cells are 5 mm squares
BaseConfig ==
    [gridSpacing |-> R(5), gridSpacingY |-> R(5), horizontalStretch |-> R(1), letterSize |-> R(4)]

FlagConfigs ==
    { With(With(With(With(BaseConfig, "addGridLines", g), "addBorder", b),
                "useVectorPaths", v), "testMode", t) :
      g \in BOOLEAN, b \in BOOLEAN, v \in BOOLEAN, t \in BOOLEAN }

LinesOn == With(BaseConfig, "addGridLines", TRUE)

NumericConfigs ==
    { With(With(LinesOn, "horizontalStretch", Q(155, 100)), "wStretch", R(1)),
      With(With(LinesOn, "horizontalStretch", R(2)), "wStretch", Q(1, 2)),
      With(With(LinesOn, "letterPaddingPercent", Q(6, 10)), "wStretch", R(1)),
      With(LinesOn, "letterPaddingPercent", R(-1)),
      With(LinesOn, "letterPaddingPercent", NaN),
      With(With(LinesOn, "gridSpacing", R(0)), "gridSpacingY", R(0)),
      With(LinesOn, "margin", NaN),
      With(LinesOn, "gridSpacing", Infinity),
      With(LinesOn, "centerHorizontally", FALSE),
      With(With(LinesOn, "horizontalStretch", Q(1, 2)), "wStretch", R(1)),
      With(With(With(LinesOn, "horizontalStretch", Q(1, 2)), "wStretch", R(1)),
           "centerHorizontally", FALSE),
      With(LinesOn, "fontName", "Arial"),
      With(LinesOn, "fontName", "Unlisted Font") }

\* the partial configurations exports are called with: each names only
\* fields of DXFConfig
Configs == { c \in FlagConfigs \cup NumericConfigs : DOMAIN c \subseteq DOMAIN defaultConfig }

(***************************************************************************)
(* Military time words (militaryTime.ts).  A word table is a function from *)
(* its keys to word lists; a key without an entry reads as undefined.      *)
(***************************************************************************)
HOUR_WORDS ==
    [h \in 0..23 |->
        << <<"ZERO">>, <<"ONE">>, <<"TWO">>, <<"THREE">>, <<"FOUR">>, <<"FIVE">>, <<"SIX">>,
           <<"SEVEN">>, <<"EIGHT">>, <<"NINE">>, <<"TEN">>, <<"ELEVEN">>, <<"TWELVE">>,
           <<"THIRTEEN">>, <<"FOURTEEN">>, <<"FIFTEEN">>, <<"SIXTEEN">>, <<"SEVENTEEN">>,
           <<"EIGHTEEN">>, <<"NINETEEN">>, <<"TWENTY">>, <<"TWENTY", "ONE">>,
           <<"TWENTY", "TWO">>, <<"TWENTY", "THREE">> >>[h + 1]]

MinuteKeys == {0, 5, 10, 15, 20, 25, 30, 35, 40, 45, 50, 55}

MINUTE_WORDS ==
    [m \in MinuteKeys |->
        << <<>>, <<"FIVE">>, <<"TEN">>, <<"FIFTEEN">>, <<"TWENTY">>, <<"TWENTY", "FIVE">>,
           <<"THIRTY">>, <<"THIRTY", "FIVE">>, <<"FORTY">>, <<"FORTY", "FIVE">>, <<"FIFTY">>,
           <<"FIFTY", "FIVE">> >>[(m \div 5) + 1]]

CROSSWORD_MINUTE_WORDS ==
    [m \in MinuteKeys |->
        << <<>>, <<"FIVE">>, <<"TEN">>, <<"FIFTEEN">>, <<"TWENTY">>, <<"TWENTYFIVE">>,
           <<"THIRTY">>, <<"THIRTYFIVE">>, <<"FORTY">>, <<"FORTYFIVE">>, <<"FIFTY">>,
           <<"FIFTYFIVE">> >>[(m \div 5) + 1]]

GRACEGPT_HOUR_WORDS ==
    [h \in 0..23 |->
        << <<"ZERO">>, <<"ONE">>, <<"TWO">>, <<"THREE">>, <<"FOUR">>, <<"FIVE">>, <<"SIX">>,
           <<"SEVEN">>, <<"EIGHT">>, <<"NINE">>, <<"TEN">>, <<"ELEVEN">>, <<"TWELVE">>,
           <<"THIR", "TEEN">>, <<"FOUR", "TEEN">>, <<"FIF", "TEEN">>, <<"SIX", "TEEN">>,
           <<"SEVEN", "TEEN">>, <<"EIGHT", "TEEN">>, <<"NINE", "TEEN">>, <<"TWENTY">>,
           <<"TWENTY", "ONE">>, <<"TWENTY", "TWO">>, <<"TWENTY", "THREE">> >>[h + 1]]

GRACEGPT_MINUTE_WORDS ==
    [m \in MinuteKeys |->
        << <<"HUNDRED">>, <<"FIVE">>, <<"TEN">>, <<"FIF", "TEEN">>, <<"TWENTY">>,
           <<"TWENTY", "FIVE">>, <<"THIRTY">>, <<"THIRTY", "FIVE">>, <<"FORTY">>,
           <<"FORTY", "FIVE">>, <<"FIFTY">>, <<"FIFTY", "FIVE">> >>[(m \div 5) + 1]]

FRAGMENT_HOUR_WORDS ==
    [h \in 0..23 |->
        << <<"ZERO">>, <<"ONE">>, <<"TWO">>, <<"THREE">>, <<"FOUR">>, <<"FIVE">>, <<"SIX">>,
           <<"SEVEN">>, <<"EIGHT">>, <<"NINE">>, <<"TEN">>, <<"ELEVEN">>, <<"TWELVE">>,
           <<"THIR", "TEEN">>, <<"FOUR", "TEEN">>, <<"FIF", "TEEN">>, <<"SIX", "TEEN">>,
           <<"SEVEN", "TEEN">>, <<"EIGHT", "TEEN">>, <<"NINE", "TEEN">>, <<"TWENTY">>,
           <<"TWENTY", "ONE">>, <<"TWENTY", "TWO">>, <<"TWENTY", "THREE">> >>[h + 1]]

FRAGMENT_MINUTE_WORDS ==
    [m \in MinuteKeys |->
        << <<"HUNDRED">>, <<"FIVE">>, <<"TEN">>, <<"FIFTEEN">>, <<"TWENTY">>,
           <<"TWENTY", "FIVE">>, <<"THIRTY">>, <<"THIRTY", "FIVE">>, <<"FORTY">>,
           <<"FORTY", "FIVE">>, <<"FIFTY">>, <<"FIFTY", "FIVE">> >>[(m \div 5) + 1]]

\* map[key], the empty list standing for undefined: every use of the code
\* treats undefined and [] alike (nothing is pushed)
WordsAt(map, key) == IF key \in DOMAIN map THEN map[key] ELSE <<>>

\* Math.floor(n / d) for d > 0
MathFloorDiv(n, d) == n \div d

\* Math.round(n / d) for d > 0: the nearest integer, halves upwards
MathRoundDiv(n, d) == (2 * n + d) \div (2 * d)

hourWordsMap(layoutName) ==
    IF layoutName \in {"GraceGPT", "GraceGPT2"} THEN GRACEGPT_HOUR_WORDS
    ELSE IF layoutName \in {"Auto Layout", "Updated Layout"} THEN FRAGMENT_HOUR_WORDS
    ELSE HOUR_WORDS

minuteWordsMap(layoutName) ==
    IF layoutName = "Crossword One" THEN CROSSWORD_MINUTE_WORDS
    ELSE IF layoutName \in {"GraceGPT", "GraceGPT2"} THEN GRACEGPT_MINUTE_WORDS
    ELSE IF layoutName \in {"Auto Layout", "Updated Layout"} THEN FRAGMENT_MINUTE_WORDS
    ELSE MINUTE_WORDS

\* convertToMilitaryTime; description is kept as the list of the words that
\* the code joins with spaces
convertToMilitaryTime(hours, minutes, layoutName) ==
    The({ The({ The({ [words |-> hourWords \o
                                  (IF adjustedMinutes = 0
                                   THEN (IF Len(WordsAt(minuteWordsMap(layoutName), 0)) > 0
                                         THEN WordsAt(minuteWordsMap(layoutName), 0)
                                         ELSE <<"HUNDRED">>)
                                   ELSE minuteWords),
                       description |-> IF adjustedMinutes = 0 THEN hourWords \o <<"hundred">>
                                       ELSE hourWords \o minuteWords] :
                      hourWords \in {WordsAt(hourWordsMap(layoutName), adjustedHours)},
                      minuteWords \in {WordsAt(minuteWordsMap(layoutName), adjustedMinutes)} }) :
                adjustedMinutes \in {IF roundedMinutes >= 60 THEN 0 ELSE roundedMinutes},
                adjustedHours \in {IF roundedMinutes >= 60 THEN (hours + 1) % 24 ELSE hours} }) :
          roundedMinutes \in {MathRoundDiv(minutes, 5) * 5} })

(***************************************************************************)
(* Fonts: the cache, the configuration table and the loads in flight.      *)
(***************************************************************************)
DefaultFontNames ==
    {"Monaco", "Arial", "Ruler Stencil Regular", "Ruler Stencil Bold", "Ruler Stencil Heavy",
     "Ruler Stencil Light", "Ruler Stencil Thin", "Warzone Stencil", "Lazer Game Zone",
     "Octin Stencil Rg", "Ombudsman Alternate"}

\* the names the model's callers ask for
FontNames == {"Monaco", "Arial", "Ruler Stencil Regular", "Unlisted Font"}

NullFont == [kind |-> "null", name |-> "", inst |-> 0]

LoadedFont(name, inst) == [kind |-> "real", name |-> name, inst |-> inst]

TaskDone(font) == [cur |-> "", done |-> TRUE, font |-> font]

TaskFetching(name) == [cur |-> name, done |-> FALSE, font |-> NullFont]

NoTask == [cur |-> "", done |-> FALSE, font |-> NullFont]

VARIABLES
    fontCache,      \* fontCache: name -> instance number, 0 when absent
    fontConfigs,    \* the names of fontConfigs
    avail,          \* name -> whether fetching its font file succeeds
    nextInst,       \* the number the next loaded font object gets
    calls,          \* the loadFont / getFont / preloadFonts calls in progress
    preloads,       \* how many times preloadFonts was called
    pc,             \* where the export is
    layout, config, grid, font, task,
    entities, handleCounter, row, col,
    lastResult,     \* result.entities of the last pathToDXFEntities call
    cellLog,        \* what the loop of addVectorPaths did, cell by cell
    document,       \* dxfContent, the text handed to the download
    hours, minutes, layoutName,   \* the arguments of convertToMilitaryTime
    militaryTime,   \* what convertToMilitaryTime returned
    inputPoints, inputTolerance,   \* the arguments of the simplifier functions
    once, twice,    \* removeColinearPoints applied to inputPoints, and to that result
    simplified,     \* simplifyPolyline applied to inputPoints
    serialized,     \* pathToDXFEntities and createDXFPolyline applied to inputPoints
    converted,      \* convertPolylinesToLines applied to a polyline of inputPoints
    inputEntities,  \* the entity list handed to buildFullDXF
    fullDocument,   \* the lines of what buildFullDXF returned
    fitInput,       \* a letter, a font and a FontSettings record
    previewFit,     \* the fit VectorLetterCell computes for fitInput
    exportFit,      \* the fit addVectorPaths computes for fitInput
    props,          \* the props of the VectorLetterCell on screen
    loads,          \* the loadAndConvert calls started, in order
    svgPath,        \* the svgPath state of the VectorLetterCell
    filename, isExporting, testMode, toast,   \* the state of DXFExport
    fontSettings    \* the fontSettings prop of DXFExport

fontVars == <<fontCache, fontConfigs, avail, nextInst>>
callVars == <<calls, preloads>>
exportVars == <<pc, layout, config, grid, font, task, entities, handleCounter, row, col,
                lastResult, cellLog, document>>
timeVars == <<hours, minutes, layoutName, militaryTime>>
polyVars == <<inputPoints, inputTolerance, once, twice, simplified>>
serialVars == <<serialized, converted>>
docVars == <<inputEntities, fullDocument>>
fitVars == <<fitInput, previewFit, exportFit>>
previewVars == <<props, loads, svgPath>>
handlerVars == <<filename, isExporting, testMode, toast, fontSettings>>
uiVars == <<fitVars, previewVars, handlerVars>>
pureVars == <<timeVars, polyVars, serialVars, docVars, fitVars, previewVars>>
vars == <<fontCache, fontConfigs, avail, nextInst, calls, preloads,
          pc, layout, config, grid, font, task, entities, handleCounter, row, col,
          lastResult, cellLog, document, pureVars, handlerVars>>

\* loadFont up to its first await, reading the cache given: the cached
\* font, null for a name without configuration, or a fetch in flight
loadFontFrom(cache, fontName) ==
    IF cache[fontName] # 0 THEN TaskDone(LoadedFont(fontName, cache[fontName]))
    ELSE IF fontName \notin fontConfigs THEN TaskDone(NullFont)
    ELSE TaskFetching(fontName)

loadFont(fontName) == loadFontFrom(fontCache, fontName)

\* getFont: the cache, else loadFont
getFont(fontName) ==
    IF fontCache[fontName] # 0 THEN TaskDone(LoadedFont(fontName, fontCache[fontName]))
    ELSE loadFont(fontName)

\* loadFont from the end of its fetch: on success the font is cached and
\* returned; on failure loadFont('Arial') runs, unless Arial itself failed
FetchSucceeds(t) == avail[t.cur]

\* loadFont's catch as it would be without the Arial fallback
AfterFetchNoFallback(t) ==
    IF FetchSucceeds(t) THEN TaskDone(LoadedFont(t.cur, nextInst))
    ELSE TaskDone(NullFont)

AfterFetchTask(t) ==
    IF FetchSucceeds(t) THEN TaskDone(LoadedFont(t.cur, nextInst))
    ELSE IF t.cur # "Arial" THEN loadFont("Arial")
    ELSE TaskDone(NullFont)

AfterFetchCache(t) ==
    IF FetchSucceeds(t) THEN [fontCache EXCEPT ![t.cur] = nextInst] ELSE fontCache

AfterFetchInst(t) == IF FetchSucceeds(t) THEN nextInst + 1 ELSE nextInst

(***************************************************************************)
(* exportGridToDXF (dxfExporter.ts).  Entities carry, besides the values   *)
(* written to the file, the place that emitted them: src, row, col.        *)
(***************************************************************************)
FirstHandle == 10

Tag(e, src, r, c) == [src |-> src, row |-> r, col |-> c] @@ e

TagAll(es, src, r, c) == [i \in 1..Len(es) |-> Tag(es[i], src, r, c)]

SpacingX(cfg) == cfg.gridSpacing
SpacingY(cfg) == cfg.gridSpacingY
TotalWidth(lay, cfg) == RAdd(RMul(R(lay.gridWidth), SpacingX(cfg)), RMul(R(2), cfg.margin))
TotalHeight(lay, cfg) == RAdd(RMul(R(lay.gridHeight), SpacingY(cfg)), RMul(R(2), cfg.margin))

\* the grid lines as they would be if the loops stopped before the last
\* boundary (col < gridWidth, row < gridHeight)
GridLinesWithoutLastBoundary(lay, cfg, counter) ==
    IF ~cfg.addGridLines THEN <<>>
    ELSE [k \in 1..(lay.gridWidth + lay.gridHeight) |->
            IF k <= lay.gridWidth
            THEN LET x == RAdd(cfg.margin, RMul(R(k - 1), SpacingX(cfg)))
                 IN  Tag(dxfLine(x, cfg.margin, x, RSub(TotalHeight(lay, cfg), cfg.margin),
                                 counter + k - 1), "grid", -1, k - 1)
            ELSE LET rw == k - lay.gridWidth - 1
                     y  == RAdd(cfg.margin, RMul(R(rw), SpacingY(cfg)))
                 IN  Tag(dxfLine(cfg.margin, y, RSub(TotalWidth(lay, cfg), cfg.margin), y,
                                 counter + k - 1), "grid", rw, -1)]

\* the optional grid lines: vertical ones first, then horizontal ones
GridLineEntities(lay, cfg, counter) ==
    IF ~cfg.addGridLines THEN <<>>
    ELSE [k \in 1..(lay.gridWidth + 1 + lay.gridHeight + 1) |->
            IF k <= lay.gridWidth + 1
            THEN LET x == RAdd(cfg.margin, RMul(R(k - 1), SpacingX(cfg)))
                 IN  Tag(dxfLine(x, cfg.margin, x, RSub(TotalHeight(lay, cfg), cfg.margin),
                                 counter + k - 1), "grid", -1, k - 1)
            ELSE LET rw == k - (lay.gridWidth + 1) - 1
                     y  == RAdd(cfg.margin, RMul(R(rw), SpacingY(cfg)))
                 IN  Tag(dxfLine(cfg.margin, y, RSub(TotalWidth(lay, cfg), cfg.margin), y,
                                 counter + k - 1), "grid", rw, -1)]

\* createSimpleTestLines: a cross and a diagonal around (50, 50)
createSimpleTestLines(counter) ==
    << Tag(dxfLine(R(30), R(50), R(70), R(50), counter), "test", -1, -1),
       Tag(dxfLine(R(50), R(30), R(50), R(70), counter + 1), "test", -1, -1),
       Tag(dxfLine(R(30), R(30), R(70), R(70), counter + 2), "test", -1, -1) >>

NeedsFont(cfg) == cfg.testMode \/ cfg.useVectorPaths

\* the font the letters are drawn with: createFallbackFont() when getFont
\* gave null
\* exportGridToDXF as it would be if it drew with whatever getFont returned,
\* without createFallbackFont()
FontForLettersAsReturned(f) == f

FontForLetters(f) == IF f.kind = "null" THEN createFallbackFont ELSE f

PcWithFont(cfg) == IF cfg.testMode THEN "testLetter" ELSE "letters"

\* the stretch as it would be without the W-specific factor
EffectiveStretchBaseOnly(cfg, letter) == cfg.horizontalStretch

EffectiveStretch(cfg, letter) ==
    IF letter = "W" \/ letter = "w"
    THEN RMul(cfg.horizontalStretch, cfg.wStretch)
    ELSE cfg.horizontalStretch

MarginPct(cfg) == MathMax(R(0), MathMin(Q(49, 100), cfg.letterPaddingPercent))

TargetHeight(cfg) == RMul(SpacingY(cfg), RSub(R(1), RMul(R(2), MarginPct(cfg))))

MeasuredHeight(measurePath) ==
    MathMax(Q(1, 10000), RSub(measurePath.bbox.y2, measurePath.bbox.y1))

\* the font size as it would be if the configured letterSize were used
\* instead of the size fitted to the cell
FontSizeFromLetterSize(cfg, measurePath) == cfg.letterSize

FontSizeForTarget(cfg, measurePath) ==
    RDiv(RMul(TargetHeight(cfg), R(RefSize)), MeasuredHeight(measurePath))

CellCx(cfg, c) == RAdd(cfg.margin, RMul(Q(2 * c + 1, 2), SpacingX(cfg)))

\* cy as it would be without the inversion: row 0 at the bottom
CellCyNotInverted(lay, cfg, r) ==
    RAdd(cfg.margin, RMul(Q(2 * r + 1, 2), SpacingY(cfg)))

CellCy(lay, cfg, r) ==
    RSub(RSub(TotalHeight(lay, cfg), cfg.margin), RMul(Q(2 * r + 1, 2), SpacingY(cfg)))

\* offsetX as it would be if the bounds were not stretched before centring
OffsetXUnstretchedBounds(cfg, c, bounds, horizontalStretch) ==
    IF cfg.centerHorizontally
    THEN RSub(CellCx(cfg, c), Half(RAdd(bounds.x1, bounds.x2)))
    ELSE RSub(RAdd(cfg.margin, RMul(R(c), SpacingX(cfg))), bounds.x1)

OffsetX(cfg, c, bounds, horizontalStretch) ==
    IF cfg.centerHorizontally
    THEN RSub(CellCx(cfg, c),
              Half(RAdd(RMul(bounds.x1, horizontalStretch), RMul(bounds.x2, horizontalStretch))))
    ELSE RSub(RAdd(cfg.margin, RMul(R(c), SpacingX(cfg))), RMul(bounds.x1, horizontalStretch))

\* offsetY as it would be if the bounds centre were subtracted, as for an
\* axis that is not flipped
OffsetYSubtractsCentre(lay, cfg, r, bounds) ==
    RSub(CellCy(lay, cfg, r), Half(RAdd(bounds.y1, bounds.y2)))

OffsetY(lay, cfg, r, bounds) == RAdd(CellCy(lay, cfg, r), Half(RAdd(bounds.y1, bounds.y2)))

Skipped(outcome, counter) ==
    [outcome |-> outcome, lines |-> <<>>, counter |-> counter, polylines |-> <<>>,
     bounds |-> BBox(Zero, Zero, Zero, Zero)]

\* the body of addVectorPaths' loop for one non-blank cell: the LINE
\* entities pushed and handleCounter.value afterwards
ProcessCell(f, letter, lay, cfg, r, c, counter) ==
    The({ IF measurePath.none THEN Skipped("nopath", counter)
          ELSE IF measurePath.bboxThrows THEN Skipped("error", counter)
          ELSE The({ IF path.none \/ path.bboxThrows THEN Skipped("error", counter)
                     ELSE The({ IF result.threw THEN Skipped("error", counter)
                                ELSE [outcome |-> "ok",
                                      lines |-> convertPolylinesToLines(result.entities, 1, <<>>,
                                                                        counter).lines,
                                      counter |-> result.nextHandle,
                                      polylines |-> result.entities,
                                      bounds |-> path.bbox] :
                                result \in
                                  { LET horizontalStretch == EffectiveStretch(cfg, letter)
                                    IN  pathToDXFEntities(path,
                                            OffsetX(cfg, c, path.bbox, horizontalStretch),
                                            OffsetY(lay, cfg, r, path.bbox),
                                            counter, horizontalStretch) } }) :
                     path \in {extractGlyphPath(f, letter, FontSizeForTarget(cfg, measurePath))} }) :
          measurePath \in {extractGlyphPath(f, letter, R(RefSize))} })

\* the loop of addVectorPaths as it would be without its try / catch: a
\* failed cell ends the export
AfterCellAbortsOnError(outcome, lay, r, c) ==
    IF outcome = "error" THEN [pc |-> "rejected", row |-> r, col |-> c]
    ELSE IF c + 1 < lay.gridWidth THEN [pc |-> "letters", row |-> r, col |-> c + 1]
    ELSE IF r + 1 < lay.gridHeight THEN [pc |-> "letters", row |-> r + 1, col |-> 0]
    ELSE [pc |-> "border", row |-> r + 1, col |-> 0]

\* where the loop of addVectorPaths goes after a cell: the catch and the
\* else branch both continue with the next cell
AfterCell(outcome, lay, r, c) ==
    IF c + 1 < lay.gridWidth THEN [pc |-> "letters", row |-> r, col |-> c + 1]
    ELSE IF r + 1 < lay.gridHeight THEN [pc |-> "letters", row |-> r + 1, col |-> 0]
    ELSE [pc |-> "border", row |-> r + 1, col |-> 0]

\* the border as it would be at the margin extent: the rectangle of the
\* whole drawing, (0, 0) to (totalWidth, totalHeight)
BorderAtMarginExtent(lay, cfg, counter) ==
    IF ~cfg.addBorder THEN <<>>
    ELSE LET x == R(0)
             y == R(0)
             w == TotalWidth(lay, cfg)
             h == TotalHeight(lay, cfg)
         IN  << Tag(dxfLine(x, y, RAdd(x, w), y, counter), "border", -1, -1),
                Tag(dxfLine(RAdd(x, w), y, RAdd(x, w), RAdd(y, h), counter + 1), "border", -1, -1),
                Tag(dxfLine(RAdd(x, w), RAdd(y, h), x, RAdd(y, h), counter + 2), "border", -1, -1),
                Tag(dxfLine(x, RAdd(y, h), x, y, counter + 3), "border", -1, -1) >>

BorderEntities(lay, cfg, counter) ==
    IF ~cfg.addBorder THEN <<>>
    ELSE LET x == cfg.margin
             y == cfg.margin
             w == RMul(R(lay.gridWidth), SpacingX(cfg))
             h == RMul(R(lay.gridHeight), SpacingY(cfg))
         IN  << Tag(dxfLine(x, y, RAdd(x, w), y, counter), "border", -1, -1),
                Tag(dxfLine(RAdd(x, w), y, RAdd(x, w), RAdd(y, h), counter + 1), "border", -1, -1),
                Tag(dxfLine(RAdd(x, w), RAdd(y, h), x, RAdd(y, h), counter + 2), "border", -1, -1),
                Tag(dxfLine(x, RAdd(y, h), x, y, counter + 3), "border", -1, -1) >>

\* createFallbackSquare: four sides around the centre
createFallbackSquare(centerX, centerY, size, counter) ==
    The({ [i \in 1..4 |->
              dxfLine(points[i].x, points[i].y, points[(i % 4) + 1].x, points[(i % 4) + 1].y,
                      counter + i - 1)] \o <<>> :
          points \in
            { LET halfSize == Half(size)
              IN  << Pt(RSub(centerX, halfSize), RSub(centerY, halfSize)),
                     Pt(RAdd(centerX, halfSize), RSub(centerY, halfSize)),
                     Pt(RAdd(centerX, halfSize), RAdd(centerY, halfSize)),
                     Pt(RSub(centerX, halfSize), RAdd(centerY, halfSize)) >> } })

\* addSingleLetter (test mode): the letter "A" at the centre of a 10 x 10 grid
addSingleLetter(f, letter, lay, cfg, counter) ==
    The({ LET square == [outcome |-> "square",
                         lines |-> createFallbackSquare(centerX, centerY, cfg.letterSize, counter),
                         counter |-> counter + 4, polylines |-> <<>>,
                         bounds |-> BBox(Zero, Zero, Zero, Zero)]
          IN  IF path.none \/ path.bboxThrows THEN square
              ELSE The({ IF result.threw THEN square
                         ELSE [outcome |-> "ok",
                               lines |-> convertPolylinesToLines(result.entities, 1, <<>>,
                                                                 counter).lines,
                               counter |-> result.nextHandle,
                               polylines |-> result.entities,
                               bounds |-> path.bbox] :
                         result \in
                           { pathToDXFEntities(path,
                                 RSub(centerX, Half(RAdd(path.bbox.x1, path.bbox.x2))),
                                 RSub(centerY, Half(RAdd(path.bbox.y1, path.bbox.y2))),
                                 counter, R(1)) } }) :
          centerX \in {RAdd(cfg.margin, RMul(cfg.gridSpacing, R(5)))},
          centerY \in {RSub(RSub(TotalHeight(lay, cfg), cfg.margin), RMul(cfg.gridSpacing, R(5)))},
          path    \in {extractGlyphPath(f, letter, cfg.letterSize)} })

NoLayout == [gridWidth |-> 0, gridHeight |-> 0, words |-> <<>>]

MaxCalls == 2

CallIds == 1..MaxCalls

MaxPreloads == 1

IdleCall == [kind |-> "idle", name |-> "", tasks |-> <<>>, hit |-> FALSE]

\* no call of convertToMilitaryTime made
NoTime == [words |-> <<>>, description |-> <<>>, returned |-> FALSE]

InitNoTime ==
    /\ hours = 0
    /\ minutes = 0
    /\ layoutName = ""
    /\ militaryTime = NoTime

InitProgram ==
    /\ fontCache = [n \in FontNames |-> 0]
    /\ fontConfigs = DefaultFontNames
    /\ nextInst = 1
    /\ calls = [i \in CallIds |-> IdleCall]
    /\ preloads = 0
    /\ pc = "idle"
    /\ layout = NoLayout
    /\ config = defaultConfig
    /\ grid = <<>>
    /\ font = NullFont
    /\ task = NoTask
    /\ entities = <<>>
    /\ handleCounter = FirstHandle
    /\ row = 0
    /\ col = 0
    /\ lastResult = <<>>
    /\ cellLog = <<>>
    /\ document = <<>>

\* no call of the simplifier functions made
NotRun == [run |-> FALSE, points |-> <<>>]

Returned(ps) == [run |-> TRUE, points |-> ps]

InitNoPoly ==
    /\ inputPoints = <<>>
    /\ inputTolerance = Zero
    /\ once = NotRun
    /\ twice = NotRun
    /\ simplified = NotRun

\* no call of the serializer functions made
InitNoSerial ==
    /\ serialized = [run |-> FALSE]
    /\ converted = [run |-> FALSE]

\* no call of buildFullDXF made
InitNoDoc ==
    /\ inputEntities = <<>>
    /\ fullDocument = [run |-> FALSE, lines |-> <<>>]

\* no fit computed
InitNoFit ==
    /\ fitInput = [letter |-> " "]
    /\ previewFit = [run |-> FALSE]
    /\ exportFit = [run |-> FALSE]

\* the svgPath '': pathToSVG is modelled by its arguments
NoSvgPath == [empty |-> TRUE, commands |-> <<>>, offsetX |-> R(0), offsetY |-> R(0)]

\* no VectorLetterCell mounted
InitNoPreview ==
    /\ props = [letter |-> " "]
    /\ loads = <<>>
    /\ svgPath = NoSvgPath

\* a toast, and the toast state null
Toast(message, type) == [message |-> message, type |-> type]

NoToast == Toast("", "null")

\* no DXFExport mounted; a filename is the sequence of its characters
InitNoHandler ==
    /\ filename = <<>>
    /\ isExporting = FALSE
    /\ testMode = FALSE
    /\ toast = NoToast
    /\ fontSettings = [family |-> ""]

InitNoUI == InitNoFit /\ InitNoPreview /\ InitNoHandler

InitCommon == InitProgram /\ InitNoTime /\ InitNoPoly /\ InitNoSerial /\ InitNoDoc /\ InitNoUI

\* exportGridToDXF up to its first await: configuration, letter grid, grid
\* lines, test lines, and the call of getFont
ExportStartWith(lays, cfgs) ==
    /\ pc = "idle"
    /\ \E lay \in lays, partial \in cfgs :
         \E cfg \in {MergeConfig(partial)} :
           \E gl \in {GridLineEntities(lay, cfg, FirstHandle)} :
             \E tl \in {IF cfg.testMode THEN createSimpleTestLines(FirstHandle + Len(gl)) ELSE <<>>},
                t  \in {IF NeedsFont(cfg) THEN getFont(cfg.fontName) ELSE NoTask} :
               /\ layout' = lay
               /\ config' = cfg
               /\ grid' = createLetterGrid(lay)
               /\ entities' = gl \o tl
               /\ handleCounter' = FirstHandle + Len(gl) + Len(tl)
               /\ task' = t
               /\ font' = IF t.done THEN FontForLetters(t.font) ELSE NullFont
               /\ pc' = IF ~NeedsFont(cfg) THEN "border"
                        ELSE IF t.done THEN PcWithFont(cfg) ELSE "fetching"
    /\ UNCHANGED <<fontVars, callVars, row, col, lastResult, cellLog, document>>
    /\ UNCHANGED pureVars

ExportStart == ExportStartWith(Layouts, Configs) /\ UNCHANGED handlerVars

\* the export's font fetch ends and getFont returns
ExportFetchDone ==
    /\ pc = "fetching"
    /\ \E t \in {AfterFetchTask(task)} :
           /\ task' = t
           /\ fontCache' = AfterFetchCache(task)
           /\ nextInst' = AfterFetchInst(task)
           /\ font' = IF t.done THEN FontForLetters(t.font) ELSE font
           /\ pc' = IF t.done THEN PcWithFont(config) ELSE pc
    /\ UNCHANGED <<fontConfigs, avail, callVars, layout, config, grid, entities, handleCounter,
                   row, col, lastResult, cellLog, document>>
    /\ UNCHANGED <<pureVars, handlerVars>>

\* one iteration of the loops of addVectorPaths
CellStep ==
    /\ pc = "letters"
    /\ \E letter \in {grid[row + 1][col + 1]} :
         \E res \in {IF letter = " " THEN Skipped("blank", handleCounter)
                     ELSE ProcessCell(font, letter, layout, config, row, col, handleCounter)} :
           \E nxt \in {AfterCell(res.outcome, layout, row, col)} :
             /\ entities' = entities \o TagAll(res.lines, "letter", row, col)
             /\ handleCounter' = res.counter
             /\ lastResult' = res.polylines
             /\ cellLog' = Append(cellLog, [row |-> row, col |-> col, letter |-> letter,
                                            outcome |-> res.outcome, lines |-> Len(res.lines),
                                            before |-> handleCounter, after |-> res.counter,
                                            bounds |-> res.bounds])
             /\ pc' = nxt.pc
             /\ row' = nxt.row
             /\ col' = nxt.col
    /\ UNCHANGED <<fontVars, callVars, layout, config, grid, font, task, document>>
    /\ UNCHANGED <<pureVars, handlerVars>>

\* addTestShapes after getFont: addSingleLetter
TestLetter ==
    /\ pc = "testLetter"
    /\ \E res \in {addSingleLetter(font, "A", layout, config, handleCounter)} :
           /\ entities' = entities \o TagAll(res.lines, "test", -1, -1)
           /\ handleCounter' = res.counter
           /\ lastResult' = res.polylines
    /\ pc' = "border"
    /\ UNCHANGED <<fontVars, callVars, layout, config, grid, font, task, row, col, cellLog,
                   document>>
    /\ UNCHANGED <<pureVars, handlerVars>>

\* a group of a DXF file: a group code and its value, each on a line
Group(code, value) == [type |-> "GROUP", code |-> code, value |-> value]

\* the document as buildFullDXF renders it: HEADER and TABLES before the
\* entities, BLOCKS and OBJECTS after them (the contents of those sections
\* left out)
buildDXFWithAllSections(ents) ==
    << Group("0", "SECTION"), Group("2", "HEADER"), Group("0", "ENDSEC"),
       Group("0", "SECTION"), Group("2", "TABLES"), Group("0", "ENDSEC"),
       Group("0", "SECTION"), Group("2", "ENTITIES") >> \o ents \o
    << Group("0", "ENDSEC"),
       Group("0", "SECTION"), Group("2", "BLOCKS"), Group("0", "ENDSEC"),
       Group("0", "SECTION"), Group("2", "OBJECTS"), Group("0", "ENDSEC"),
       Group("0", "EOF") >>

\* buildMinimalDXF: the entities between the markers of one ENTITIES
\* section, then EOF
buildMinimalDXF(ents) ==
    << Group("0", "SECTION"), Group("2", "ENTITIES") >> \o ents \o
    << Group("0", "ENDSEC"), Group("0", "EOF") >>

\* the border, buildMinimalDXF and the download; the browser calls of the
\* download either succeed or throw, and a throw is rethrown to the caller
ExportFinish ==
    /\ pc = "border"
    /\ \E b \in {BorderEntities(layout, config, handleCounter)} :
           /\ entities' = entities \o b
           /\ handleCounter' = handleCounter + Len(b)
           /\ document' = buildMinimalDXF(entities \o b)
    /\ \E ok \in BOOLEAN : pc' = IF ok THEN "done" ELSE "rejected"
    /\ UNCHANGED <<fontVars, callVars, layout, config, grid, font, task, row, col, lastResult, cellLog>>
    /\ UNCHANGED <<pureVars, handlerVars>>

ExportAvail ==
    { a \in [FontNames -> BOOLEAN] : a["Monaco"] /\ ~a["Unlisted Font"] }

Init == InitCommon /\ avail \in ExportAvail

Next == ExportStart \/ ExportFetchDone \/ CellStep \/ TestLetter \/ ExportFinish

Spec == Init /\ [][Next]_vars

(***************************************************************************)
(* Callers of the font loader besides the export.  JavaScript runs each    *)
(* callback to completion: a call is one step up to its first await and    *)
(* one step per fetch that ends; the export's steps after its font arrived *)
(* have no await that other callers could observe.                         *)
(***************************************************************************)
Call(kind, name, tasks, hit) == [kind |-> kind, name |-> name, tasks |-> tasks, hit |-> hit]

\* the names the callers ask for
CallerNames == {"Arial"}

CallersMayRun == pc \in {"idle", "fetching"}

\* loadFont(name) is called
LoadFontCall(i) ==
    /\ CallersMayRun
    /\ calls[i].kind = "idle"
    /\ \E name \in CallerNames :
         calls' = [calls EXCEPT ![i] = Call("loadFont", name, <<loadFont(name)>>,
                                            fontCache[name] # 0)]
    /\ UNCHANGED <<fontVars, preloads, exportVars>>
    /\ UNCHANGED <<pureVars, handlerVars>>

\* getFont(name) is called
GetFontCall(i) ==
    /\ CallersMayRun
    /\ calls[i].kind = "idle"
    /\ \E name \in CallerNames :
         calls' = [calls EXCEPT ![i] = Call("getFont", name, <<getFont(name)>>,
                                            fontCache[name] # 0)]
    /\ UNCHANGED <<fontVars, preloads, exportVars>>
    /\ UNCHANGED <<pureVars, handlerVars>>

EmptyCache == [n \in FontNames |-> 0]

\* preloadFonts() is called: fontCache.clear(), then loadFont for Monaco and
\* Arial, each up to its fetch
PreloadFontsCall(i) ==
    /\ CallersMayRun
    /\ calls[i].kind = "idle"
    /\ preloads < MaxPreloads
    /\ fontCache' = EmptyCache
    /\ calls' = [calls EXCEPT ![i] = Call("preloadFonts", "",
                                         << loadFontFrom(EmptyCache, "Monaco"),
                                            loadFontFrom(EmptyCache, "Arial") >>, FALSE)]
    /\ preloads' = preloads + 1
    /\ UNCHANGED <<fontConfigs, avail, nextInst, exportVars>>
    /\ UNCHANGED <<pureVars, handlerVars>>

\* addCustomFont("Unlisted Font", file)
AddCustomFont ==
    /\ CallersMayRun
    /\ "Unlisted Font" \notin fontConfigs
    /\ fontConfigs' = fontConfigs \cup {"Unlisted Font"}
    /\ UNCHANGED <<fontCache, avail, nextInst, callVars, exportVars>>
    /\ UNCHANGED <<pureVars, handlerVars>>

\* the fetch of task k of call i ends
CallFetchDone(i, k) ==
    /\ CallersMayRun
    /\ k \in 1..Len(calls[i].tasks)
    /\ calls[i].tasks[k].cur # ""
    /\ calls' = [calls EXCEPT ![i].tasks[k] = AfterFetchTask(calls[i].tasks[k])]
    /\ fontCache' = AfterFetchCache(calls[i].tasks[k])
    /\ nextInst' = AfterFetchInst(calls[i].tasks[k])
    /\ UNCHANGED <<fontConfigs, avail, preloads, exportVars>>
    /\ UNCHANGED <<pureVars, handlerVars>>

\* the promise of call i settles and its caller is done with the result
CallReturn(i) ==
    /\ CallersMayRun
    /\ calls[i].kind # "idle"
    /\ \A k \in 1..Len(calls[i].tasks) : calls[i].tasks[k].done
    /\ calls' = [calls EXCEPT ![i] = IdleCall]
    /\ UNCHANGED <<fontVars, preloads, exportVars>>
    /\ UNCHANGED <<pureVars, handlerVars>>

\* the export that runs beside the callers: one cell, holding "A"
SmallLayouts == { [gridWidth |-> 1, gridHeight |-> 1, words |-> <<WordList[1]>>] }

SmallConfigs ==
    { c \in { BaseConfig, With(With(BaseConfig, "testMode", TRUE), "fontName", "Arial") } :
        DOMAIN c \subseteq DOMAIN defaultConfig }

\* Monaco.ttf and the default font's file are missing, the custom font's
\* file exists, arial.ttf may or may not
FontAvail ==
    { a \in [FontNames -> BOOLEAN] :
        ~a["Monaco"] /\ ~a["Ruler Stencil Regular"] /\ a["Unlisted Font"] }

InitFont == InitCommon /\ avail \in FontAvail

NextFont ==
    \/ \E i \in CallIds : LoadFontCall(i)
    \/ \E i \in CallIds : GetFontCall(i)
    \/ \E i \in CallIds : PreloadFontsCall(i)
    \/ AddCustomFont
    \/ \E i \in CallIds, k \in 1..2 : CallFetchDone(i, k)
    \/ \E i \in CallIds : CallReturn(i)
    \/ ExportStartWith(SmallLayouts, SmallConfigs) /\ UNCHANGED handlerVars
    \/ ExportFetchDone
    \/ CellStep
    \/ TestLetter
    \/ ExportFinish

SpecFont == InitFont /\ [][NextFont]_vars

(***************************************************************************)
(* The clock display asks for the words of a time of day.                  *)
(***************************************************************************)
\* the layout names of the branches of convertToMilitaryTime, a name that
\* takes none of them, and "" for the omitted argument
LayoutNames ==
    {"", "Military Standard", "Crossword One", "GraceGPT", "GraceGPT2", "Auto Layout",
     "Updated Layout"}

InitTime ==
    /\ InitProgram
    /\ avail \in {[n \in FontNames |-> TRUE]}
    /\ hours \in 0..23
    /\ minutes \in 0..59
    /\ layoutName \in LayoutNames
    /\ militaryTime = NoTime
    /\ InitNoPoly
    /\ InitNoSerial
    /\ InitNoDoc
    /\ InitNoUI

\* ClockDisplay renders: convertToMilitaryTime(hours, minutes, layout.name)
ConvertTime ==
    /\ ~militaryTime.returned
    /\ \E t \in {convertToMilitaryTime(hours, minutes, layoutName)} :
           militaryTime' = [words |-> t.words, description |-> t.description, returned |-> TRUE]
    /\ UNCHANGED <<fontVars, callVars, exportVars, hours, minutes, layoutName, polyVars,
                   serialVars>>
    /\ UNCHANGED docVars
    /\ UNCHANGED uiVars

NextTime == ConvertTime

SpecTime == InitTime /\ [][NextTime]_vars

(***************************************************************************)
(* The simplifier functions applied to point lists.                        *)
(***************************************************************************)
MaxPoints == 4

\* points of a small lattice, and a point with a NaN coordinate
SamplePoints ==
    { Pt(R(x), R(y)) : x \in 0..2, y \in 0..1 } \cup { Pt(NaN, R(0)) }

\* the tolerances pathToDXFEntities passes (0.01 and 0.02), and 1
SampleTolerances == { Q(1, 100), Q(1, 50), R(1) }

PointLists == UNION { [1..n -> SamplePoints] : n \in 0..MaxPoints }

\* a point list with each point's index in the list beside it
Indexed(ps) == [i \in 1..Len(ps) |-> [x |-> ps[i].x, y |-> ps[i].y, idx |-> i]] \o <<>>

InitSimplify ==
    /\ InitProgram
    /\ avail \in {[n \in FontNames |-> TRUE]}
    /\ InitNoTime
    /\ inputPoints \in PointLists
    /\ inputTolerance \in SampleTolerances
    /\ once = NotRun
    /\ twice = NotRun
    /\ simplified = NotRun
    /\ InitNoSerial
    /\ InitNoDoc
    /\ InitNoUI

\* removeColinearPoints(points, tolerance)
RemoveColinear ==
    /\ ~once.run
    /\ once' = Returned(removeColinearPoints(inputPoints, inputTolerance))
    /\ UNCHANGED <<fontVars, callVars, exportVars, timeVars, inputPoints, inputTolerance,
                   twice, simplified, serialVars>>
    /\ UNCHANGED docVars
    /\ UNCHANGED uiVars

\* removeColinearPoints applied to what it returned
RemoveColinearAgain ==
    /\ once.run /\ ~twice.run
    /\ twice' = Returned(removeColinearPoints(once.points, inputTolerance))
    /\ UNCHANGED <<fontVars, callVars, exportVars, timeVars, inputPoints, inputTolerance,
                   once, simplified, serialVars>>
    /\ UNCHANGED docVars
    /\ UNCHANGED uiVars

\* simplifyPolyline(points, tolerance); the points carry their index in the
\* input so that the result tells which of them were retained
Simplify ==
    /\ ~simplified.run
    /\ simplified' = Returned(simplifyPolyline(Indexed(inputPoints), inputTolerance))
    /\ UNCHANGED <<fontVars, callVars, exportVars, timeVars, inputPoints, inputTolerance,
                   once, twice, serialVars>>
    /\ UNCHANGED docVars
    /\ UNCHANGED uiVars

NextSimplify == RemoveColinear \/ RemoveColinearAgain \/ Simplify

SpecSimplify == InitSimplify /\ [][NextSimplify]_vars

(***************************************************************************)
(* The serializer functions applied to point lists.                        *)
(***************************************************************************)
\* a glyph path through the points: a contour starts at the first and at
\* the third point, so that a path has up to two contours
PathOf(ps) ==
    Path([i \in 1..Len(ps) |->
             IF i \in {1, 3} THEN CmdM(ps[i].x, ps[i].y) ELSE CmdL(ps[i].x, ps[i].y)] \o <<>>,
         BBox(Zero, Zero, Zero, Zero), FALSE)

\* an LWPOLYLINE string with the points as its vertices
PolylineOf(ps, handle) ==
    [type |-> "LWPOLYLINE", handle |-> handle, closed |-> TRUE, points |-> ps]

\* the entity list handed to convertPolylinesToLines: a polyline between two
\* entities that are no polylines
MixedEntities(ps) ==
    << dxfLine(R(0), R(0), R(1), R(1), 1), PolylineOf(ps, 2), dxfLine(R(1), R(1), R(2), R(2), 3) >>

InitSerialize ==
    /\ InitProgram
    /\ avail \in {[n \in FontNames |-> TRUE]}
    /\ InitNoTime
    /\ inputPoints \in PointLists
    /\ inputTolerance = Zero
    /\ once = NotRun
    /\ twice = NotRun
    /\ simplified = NotRun
    /\ InitNoSerial
    /\ InitNoDoc
    /\ InitNoUI

\* pathToDXFEntities(path, 0, 0, startHandle, 1) and createDXFPolyline(points,
\* true, handle)
Serialize ==
    /\ ~serialized.run
    /\ \E result \in {pathToDXFEntities(PathOf(inputPoints), Zero, Zero, FirstHandle, R(1))} :
           serialized' = [run |-> TRUE, entities |-> result.entities,
                          nextHandle |-> result.nextHandle,
                          polyline |-> createDXFPolyline(inputPoints, TRUE, FirstHandle)]
    /\ UNCHANGED <<fontVars, callVars, exportVars, timeVars, polyVars, converted>>
    /\ UNCHANGED docVars
    /\ UNCHANGED uiVars

\* convertPolylinesToLines(polylineEntities, handleCounter)
ConvertToLines ==
    /\ ~converted.run
    /\ \E result \in {convertPolylinesToLines(MixedEntities(inputPoints), 1, <<>>, FirstHandle)} :
           converted' = [run |-> TRUE, lines |-> result.lines, counter |-> result.counter]
    /\ UNCHANGED <<fontVars, callVars, exportVars, timeVars, polyVars, serialized>>
    /\ UNCHANGED docVars
    /\ UNCHANGED uiVars

NextSerialize == Serialize \/ ConvertToLines

SpecSerialize == InitSerialize /\ [][NextSerialize]_vars

(***************************************************************************)
(* buildFullDXF (dxfExporter.ts).  A document is the list of its lines,    *)
(* what text.split('\n') gives.                                            *)
(***************************************************************************)
\* the lines of a LINE entity string; a number is written as the text of
\* its value
EntityLines(e) ==
    << "0", "LINE", "5", ToString(e.handle), "8", "0", "100", "AcDbEntity", "100", "AcDbLine",
       "10", ToString(e.x1), "20", ToString(e.y1), "30", "0",
       "11", ToString(e.x2), "21", ToString(e.y2), "31", "0" >>

\* the lines of strings.join('\n'): the lines of the strings one after the
\* other, and one empty line when there is no string
RECURSIVE Concat(_)
Concat(seqs) == IF seqs = <<>> THEN <<>> ELSE Head(seqs) \o Concat(Tail(seqs))

JoinLines(strings) == IF Len(strings) = 0 THEN <<"">> ELSE Concat(strings)

HeaderLines(styles) ==
    << "0", "SECTION",
       "2", "HEADER",
       "9", "$ACADVER", "1", "AC1027",
       "9", "$HANDSEED", "5", "FFFF",
       "9", "$MEASUREMENT", "70", "0",
       "9", "$INSUNITS", "70", "4",
       "9", "$DWGCODEPAGE", "3", "ANSI_1252",
       "9", "$EXTMIN", "10", "0.0", "20", "0.0", "30", "0.0",
       "9", "$EXTMAX", "10", "1000.0", "20", "1000.0", "30", "0.0",
       "0", "ENDSEC",
       "0", "SECTION",
       "2", "TABLES",
       "0", "TABLE", "2", "LAYER", "70", "1",
       "0", "LAYER", "2", "0", "70", "0", "6", "CONTINUOUS", "62", "7",
       "0", "ENDTAB",
       "0", "TABLE", "2", "STYLE", "70", "1",
       "0", "STYLE", "2", "STANDARD", "70", "0", "40", "0", "41", "1", "50", "0", "71", "0",
       "42", "0", "3", "txt", "4", "" >> \o
    styles \o
    << "0", "ENDTAB",
       "0", "TABLE", "2", "VIEW", "70", "0",
       "0", "ENDTAB",
       "0", "TABLE", "2", "UCS", "70", "0",
       "0", "ENDTAB",
       "0", "TABLE", "2", "APPID", "70", "1",
       "0", "APPID", "2", "ACAD", "70", "0",
       "0", "ENDTAB",
       "0", "ENDSEC",
       "0", "SECTION", "2", "ENTITIES" >>

FooterLines ==
    << "0", "ENDSEC",
       "0", "SECTION", "2", "BLOCKS",
       "0", "ENDSEC",
       "0", "SECTION", "2", "OBJECTS",
       "0", "DICTIONARY", "2", "ACAD_GROUP",
       "0", "DICTIONARY", "2", "ACAD_MLINESTYLE",
       "0", "ENDSEC",
       "0", "EOF" >>

\* buildFullDXF: `${header}\n${entities.join('\n')}\n${footer}`
buildFullDXF(ents, styles) ==
    HeaderLines(styles) \o JoinLines(ents) \o FooterLines

MaxEntities == 3

SampleEntities ==
    { dxfLine(R(2), R(2), R(7), R(2), FirstHandle),
      dxfLine(R(7), R(2), R(7), Q(9, 2), FirstHandle + 1),
      LineEntity(Q(5, 2), R(3), R(4), Q(7, 2), FirstHandle + 2, "toFixed6"),
      LineEntity(R(4), Q(7, 2), Q(5, 2), R(3), FirstHandle + 3, "toFixed6") }

EntityLists == UNION { [1..n -> SampleEntities] : n \in 0..MaxEntities }

InitDocument ==
    /\ InitProgram
    /\ avail \in {[n \in FontNames |-> TRUE]}
    /\ InitNoTime
    /\ InitNoPoly
    /\ InitNoSerial
    /\ inputEntities \in EntityLists
    /\ fullDocument = [run |-> FALSE, lines |-> <<>>]
    /\ InitNoUI

\* buildFullDXF(entities), styles left to its default []
BuildFull ==
    /\ ~fullDocument.run
    /\ \E strings \in {[i \in 1..Len(inputEntities) |-> EntityLines(inputEntities[i])] \o <<>>} :
           fullDocument' = [run |-> TRUE, lines |-> buildFullDXF(strings, <<>>)]
    /\ UNCHANGED <<fontVars, callVars, exportVars, timeVars, polyVars, serialVars, inputEntities>>
    /\ UNCHANGED uiVars

NextDocument == BuildFull

SpecDocument == InitDocument /\ [][NextDocument]_vars

(***************************************************************************)
(* The user interface (DXFExport.tsx, VectorLetterCell.tsx).  A            *)
(* FontSettings record holds the fields handleExport and VectorLetterCell  *)
(* read.                                                                   *)
(***************************************************************************)
\* mapFontFamilyToFontName: fontMap[fontFamily] || 'Arial'
mapFontFamilyToFontName(fontFamily) ==
    CASE fontFamily = "Monaco, Menlo, Ubuntu Mono, monospace" -> "Monaco"
      [] fontFamily = "Arial, sans-serif" -> "Arial"
      [] fontFamily = "Ruler Stencil Regular, Arial, sans-serif" -> "Ruler Stencil Regular"
      [] OTHER -> "Arial"

\* the config object handleExport builds from fontSettings and testMode
HandlerConfig(fs, tm) ==
    [letterSize |-> fs.size, gridSpacing |-> fs.cellSpacingX, gridSpacingY |-> fs.cellSpacingY,
     margin |-> fs.margin, letterPaddingPercent |-> fs.letterPaddingPercent,
     horizontalStretch |-> fs.horizontalStretch, wStretch |-> fs.wStretch,
     centerHorizontally |-> fs.centerHorizontally,
     fontName |-> mapFontFamilyToFontName(fs.family),
     useVectorPaths |-> fs.useVectorPaths, addBorder |-> fs.addBorder,
     addGridLines |-> fs.addGridLines, testMode |-> tm]

\* a || b for a number a: b when a is 0 or NaN
OrElse(a, b) == IF a = Zero \/ a = NaN THEN b ELSE a

\* VectorLetterCell: marginPct, targetHeight, fontSizeForTarget
PreviewMarginPct(fs) == MathMax(R(0), MathMin(Q(49, 100), fs.letterPaddingPercent))

PreviewTargetHeight(fs, cellHeight) ==
    RMul(cellHeight, RSub(R(1), RMul(R(2), PreviewMarginPct(fs))))

PreviewFontSize(fs, cellHeight, measurePath) ==
    RDiv(RMul(PreviewTargetHeight(fs, cellHeight), R(RefSize)), MeasuredHeight(measurePath))

\* VectorLetterCell: effectiveStretch
PreviewStretch(fs, letter) ==
    The({ IF letter = "W" \/ letter = "w" THEN RMul(baseStretch, wStretch) ELSE baseStretch :
          baseStretch \in {OrElse(fs.horizontalStretch, R(1))},
          wStretch \in {OrElse(fs.wStretch, R(1))} })

\* the fontSettings the application starts with
defaultFontSettings ==
    [family |-> "Monaco, Menlo, Ubuntu Mono, monospace", size |-> R(2),
     cellSpacingX |-> R(3), cellSpacingY |-> R(3),
     margin |-> R(2), letterPaddingPercent |-> Q(1, 10), horizontalStretch |-> R(1),
     wStretch |-> R(1), centerHorizontally |-> TRUE, useVectorPaths |-> TRUE,
     addBorder |-> TRUE, addGridLines |-> FALSE]

FitLetters == {"A", "W", "w"}
FitFonts == {LoadedFont("Arial", 1), createFallbackFont}
FitPaddings == {R(0), Q(1, 10), Q(6, 10)}
FitStretches == {R(0), Q(1, 2), R(1), Q(155, 100)}
FitWStretches == {R(0), Q(9, 10), R(1)}
FitHeights == {R(3), R(5)}

FitSettings ==
    { [defaultFontSettings EXCEPT !.letterPaddingPercent = p, !.horizontalStretch = h,
                                  !.wStretch = w, !.cellSpacingY = y] :
      p \in FitPaddings, h \in FitStretches, w \in FitWStretches, y \in FitHeights }

InitFit ==
    /\ InitProgram
    /\ avail \in {[n \in FontNames |-> TRUE]}
    /\ InitNoTime
    /\ InitNoPoly
    /\ InitNoSerial
    /\ InitNoDoc
    /\ fitInput \in [letter : FitLetters, font : FitFonts, settings : FitSettings]
    /\ previewFit = [run |-> FALSE]
    /\ exportFit = [run |-> FALSE]
    /\ InitNoPreview
    /\ InitNoHandler

\* loadAndConvert of a VectorLetterCell whose cell is cellSpacingY high, from
\* the font's arrival to effectiveStretch
FitPreview ==
    /\ ~previewFit.run
    /\ \E fs \in {fitInput.settings},
          measurePath \in {extractGlyphPath(fitInput.font, fitInput.letter, R(RefSize))} :
           previewFit' = [run |-> TRUE,
                          fontSize |-> PreviewFontSize(fs, fs.cellSpacingY, measurePath),
                          stretch |-> PreviewStretch(fs, fitInput.letter)]
    /\ UNCHANGED <<fontVars, callVars, exportVars, timeVars, polyVars, serialVars, docVars>>
    /\ UNCHANGED <<fitInput, exportFit, previewVars, handlerVars>>

\* addVectorPaths for one cell under the config handleExport builds, from
\* marginPct to horizontalStretch
FitExport ==
    /\ ~exportFit.run
    /\ \E cfg \in {MergeConfig(HandlerConfig(fitInput.settings, FALSE))},
          measurePath \in {extractGlyphPath(fitInput.font, fitInput.letter, R(RefSize))} :
           exportFit' = [run |-> TRUE,
                         fontSize |-> FontSizeForTarget(cfg, measurePath),
                         stretch |-> EffectiveStretch(cfg, fitInput.letter)]
    /\ UNCHANGED <<fontVars, callVars, exportVars, timeVars, polyVars, serialVars, docVars>>
    /\ UNCHANGED <<fitInput, previewFit, previewVars, handlerVars>>

NextFit == FitPreview \/ FitExport

SpecFit == InitFit /\ [][NextFit]_vars

(***************************************************************************)
(* VectorLetterCell: the effect runs after every render that changed one   *)
(* of its dependencies.  A loadAndConvert call whose getFont is a cache    *)
(* hit resumes in a microtask, before any later render; one that fetches   *)
(* resumes when its fetch ends, and fetches end in any order.              *)
(***************************************************************************)
MaxLoads == 2

SvgPath(path, offsetX, offsetY) ==
    [empty |-> FALSE, commands |-> path.commands, offsetX |-> offsetX, offsetY |-> offsetY]

\* font || createFallbackFont()
WorkingFont(f) == IF f.kind = "null" THEN createFallbackFont ELSE f

PreviewOffsetX(p, bounds, effectiveStretch) ==
    IF p.settings.centerHorizontally
    THEN RSub(RDiv(Half(p.cellWidth), effectiveStretch), Half(RAdd(bounds.x1, bounds.x2)))
    ELSE RSub(Zero, bounds.x1)

PreviewOffsetY(p, bounds) == RAdd(Half(p.cellHeight), Half(RAdd(bounds.y1, bounds.y2)))

\* loadAndConvert after its await, for the props p it was started with and
\* the font f getFont gave: what it hands to setSvgPath, if anything
ConvertFor(p, f) ==
    The({ IF measurePath.none THEN [set |-> FALSE, path |-> NoSvgPath]
          ELSE IF measurePath.bboxThrows THEN [set |-> TRUE, path |-> NoSvgPath]
          ELSE The({ IF path.none \/ path.bboxThrows THEN [set |-> TRUE, path |-> NoSvgPath]
                     ELSE [set |-> TRUE,
                           path |-> SvgPath(path,
                                       PreviewOffsetX(p, path.bbox,
                                                      PreviewStretch(p.settings, p.letter)),
                                       PreviewOffsetY(p, path.bbox))] :
                     path \in {extractGlyphPath(workingFont, p.letter,
                                   PreviewFontSize(p.settings, p.cellHeight, measurePath))} }) :
          workingFont \in {WorkingFont(f)},
          measurePath \in {extractGlyphPath(WorkingFont(f), p.letter, R(RefSize))} })

Load(p, t) == [props |-> p, task |-> t, finished |-> FALSE, set |-> FALSE, path |-> NoSvgPath]

Finished(l, result) ==
    [props |-> l.props, task |-> l.task, finished |-> TRUE,
     set |-> result.set, path |-> result.path]

\* the call as it is once its task t has or has not given a font
LoadAfter(l, t) ==
    IF t.done THEN Finished([l EXCEPT !.task = t], ConvertFor(l.props, t.font))
    ELSE [l EXCEPT !.task = t]

PreviewLetters == {"A", "W", " ", "?"}
PreviewFontNames == {"Arial", "Monaco"}
PreviewSettings == {defaultFontSettings, [defaultFontSettings EXCEPT !.horizontalStretch = R(2)]}

PreviewProps ==
    [letter : PreviewLetters, fontName : PreviewFontNames, settings : PreviewSettings,
     cellWidth : {R(5)}, cellHeight : {R(5)}]

\* arial.ttf exists, Monaco.ttf may or may not
PreviewAvail == { a \in [FontNames -> BOOLEAN] : a["Arial"] /\ ~a["Unlisted Font"] /\
                                                 ~a["Ruler Stencil Regular"] }

\* a cell mounted with a blank letter
InitPreview ==
    /\ InitProgram
    /\ avail \in PreviewAvail
    /\ InitNoTime
    /\ InitNoPoly
    /\ InitNoSerial
    /\ InitNoDoc
    /\ InitNoFit
    /\ props = [letter |-> " ", fontName |-> "Arial", settings |-> defaultFontSettings,
                cellWidth |-> R(5), cellHeight |-> R(5)]
    /\ loads = <<>>
    /\ svgPath = NoSvgPath
    /\ InitNoHandler

\* a render with changed props, and the effect: setSvgPath('') for a blank
\* letter, else loadAndConvert() up to the fetch of its font, or to its end
\* when the font is cached
Render ==
    /\ Len(loads) < MaxLoads
    /\ \E p \in PreviewProps :
         /\ p # props
         /\ props' = p
         /\ IF p.letter = " "
            THEN /\ svgPath' = NoSvgPath
                 /\ loads' = loads
            ELSE \E l \in {LoadAfter(Load(p, NoTask), getFont(p.fontName))} :
                   /\ loads' = Append(loads, l)
                   /\ svgPath' = IF l.finished /\ l.set THEN l.path ELSE svgPath
    /\ UNCHANGED <<fontVars, callVars, exportVars, timeVars, polyVars, serialVars, docVars>>
    /\ UNCHANGED <<fitVars, handlerVars>>

\* the fetch of call i ends: loadFont caches the font or goes on to Arial,
\* and once getFont returns the call runs to its end
LoadFetchDone(i) ==
    /\ i \in 1..Len(loads)
    /\ ~loads[i].finished
    /\ \E l \in {LoadAfter(loads[i], AfterFetchTask(loads[i].task))} :
         /\ loads' = [loads EXCEPT ![i] = l]
         /\ svgPath' = IF l.finished /\ l.set THEN l.path ELSE svgPath
    /\ fontCache' = AfterFetchCache(loads[i].task)
    /\ nextInst' = AfterFetchInst(loads[i].task)
    /\ UNCHANGED <<fontConfigs, avail, callVars, exportVars, timeVars, polyVars, serialVars,
                   docVars, props>>
    /\ UNCHANGED <<fitVars, handlerVars>>

NextPreview == Render \/ \E i \in 1..MaxLoads : LoadFetchDone(i)

SpecPreview == InitPreview /\ [][NextPreview]_vars

(***************************************************************************)
(* DXFExport: handleExport and the export it awaits.  The Export button is *)
(* disabled while isExporting, so handleExport does not run then; the      *)
(* locals of exportGridToDXF end with the call.                            *)
(***************************************************************************)
\* String.prototype.trim on a sequence of characters
RECURSIVE TrimStart(_)
TrimStart(str) == IF Len(str) > 0 /\ Head(str) = " " THEN TrimStart(Tail(str)) ELSE str

RECURSIVE TrimEnd(_)
TrimEnd(str) ==
    IF Len(str) > 0 /\ str[Len(str)] = " " THEN TrimEnd(SubSeq(str, 1, Len(str) - 1)) ELSE str

Trim(str) == TrimEnd(TrimStart(str))

FilenameToast == Toast("Please enter a filename", "error")
DownloadedToast == Toast("DXF file downloaded", "success")
ExportErrorToast == Toast("Error exporting DXF file. Please try again.", "error")

\* isExporting as handleExport leaves it, were setIsExporting(false) the
\* last statement of the try block instead of a finally
IsExportingAfterTryOnly(outcome) == outcome = "rejected"

\* finally { setIsExporting(false) }
IsExportingAfter(outcome) == FALSE

Filenames == { <<>>, <<" ", " ">>, <<"g">>, <<" ", "g", ".", "d", "x", "f">> }

HandlerSettings == {defaultFontSettings, [defaultFontSettings EXCEPT !.useVectorPaths = FALSE]}

HandlerAvail == { a \in [FontNames -> BOOLEAN] : ~a["Unlisted Font"] /\
                                                 ~a["Ruler Stencil Regular"] }

\* useState('wordclock-grid') is modelled by a one-letter name
InitHandler ==
    /\ InitProgram
    /\ avail \in HandlerAvail
    /\ InitNoTime
    /\ InitNoPoly
    /\ InitNoSerial
    /\ InitNoDoc
    /\ InitNoFit
    /\ InitNoPreview
    /\ filename = <<"g">>
    /\ isExporting = FALSE
    /\ testMode = FALSE
    /\ toast = NoToast
    /\ fontSettings \in HandlerSettings

\* onChange of the filename input
SetFilename ==
    /\ \E f \in Filenames : f # filename /\ filename' = f
    /\ UNCHANGED <<fontVars, callVars, exportVars, pureVars>>
    /\ UNCHANGED <<isExporting, testMode, toast, fontSettings>>

\* onChange of the test mode checkbox
SetTestMode ==
    /\ testMode' = ~testMode
    /\ UNCHANGED <<fontVars, callVars, exportVars, pureVars>>
    /\ UNCHANGED <<filename, isExporting, toast, fontSettings>>

\* the timer of showToast: setToast(null)
ToastExpires ==
    /\ toast # NoToast
    /\ toast' = NoToast
    /\ UNCHANGED <<fontVars, callVars, exportVars, pureVars>>
    /\ UNCHANGED <<filename, isExporting, testMode, fontSettings>>

\* handleExport up to its await: the filename check, setIsExporting(true),
\* and downloadDXF -> exportGridToDXF up to its first await
HandleExport ==
    /\ ~isExporting
    /\ IF Trim(filename) = <<>>
       THEN /\ toast' = FilenameToast
            /\ UNCHANGED <<fontVars, callVars, exportVars, pureVars, isExporting>>
       ELSE /\ isExporting' = TRUE
            /\ ExportStartWith(SmallLayouts, {HandlerConfig(fontSettings, testMode)})
            /\ UNCHANGED toast
    /\ UNCHANGED <<filename, testMode, fontSettings>>

\* handleExport after its await: the toast of the try block or of the catch,
\* then the finally
HandlerSettles ==
    /\ pc \in {"done", "rejected"}
    /\ toast' = IF pc = "done" THEN DownloadedToast ELSE ExportErrorToast
    /\ isExporting' = IsExportingAfter(pc)
    /\ pc' = "idle"
    /\ layout' = NoLayout
    /\ config' = defaultConfig
    /\ grid' = <<>>
    /\ font' = NullFont
    /\ task' = NoTask
    /\ entities' = <<>>
    /\ handleCounter' = FirstHandle
    /\ row' = 0
    /\ col' = 0
    /\ lastResult' = <<>>
    /\ cellLog' = <<>>
    /\ document' = <<>>
    /\ UNCHANGED <<fontVars, callVars, pureVars, filename, testMode, fontSettings>>

NextHandler ==
    \/ SetFilename
    \/ SetTestMode
    \/ ToastExpires
    \/ HandleExport
    \/ ExportFetchDone
    \/ CellStep
    \/ TestLetter
    \/ ExportFinish
    \/ HandlerSettles

\* every fetch ends and every continuation that is ready runs
HandlerFairness ==
    /\ WF_vars(ExportFetchDone)
    /\ WF_vars(CellStep)
    /\ WF_vars(TestLetter)
    /\ WF_vars(ExportFinish)
    /\ WF_vars(HandlerSettles)

SpecHandler == InitHandler /\ [][NextHandler]_vars /\ HandlerFairness

(***************************************************************************)
(* Exactness of the simplifier's arithmetic: every finite point that the   *)
(* export under way hands to removeColinearPoints lies on the grid.        *)
(***************************************************************************)
\* the valid points of each path group of a path, as pathToDXFEntities
\* computes them before simplification
PointsBeforeSimplification(path, offsetX, offsetY, horizontalStretch) ==
    IF path.none \/ path.bboxThrows
       \/ (\E i \in 1..Len(path.commands) : path.commands[i].type = "bad")
    THEN <<>>
    ELSE LET groups == GroupCommands(path.commands, 1, <<>>, <<>>)
         IN  [g \in 1..Len(groups) |->
                SelectValid(GroupPoints(groups[g], 1, [pts |-> <<>>, cx |-> Zero, cy |-> Zero],
                                        offsetX, offsetY, horizontalStretch))]

AllOnGrid(ps) ==
    \A g \in 1..Len(ps) : \A i \in 1..Len(ps[g]) : OnGrid(ps[g][i].x) /\ OnGrid(ps[g][i].y)

GridExact ==
    /\ pc = "letters" /\ grid[row + 1][col + 1] # " " =>
         LET letter == grid[row + 1][col + 1]
             mp     == extractGlyphPath(font, letter, R(RefSize))
             path   == extractGlyphPath(font, letter, FontSizeForTarget(config, mp))
             hs     == EffectiveStretch(config, letter)
         IN  ~mp.none /\ ~mp.bboxThrows =>
                AllOnGrid(PointsBeforeSimplification(path,
                              OffsetX(config, col, path.bbox, hs),
                              OffsetY(layout, config, row, path.bbox), hs))
    /\ pc = "testLetter" =>
         LET path    == extractGlyphPath(font, "A", config.letterSize)
             centerX == RAdd(config.margin, RMul(config.gridSpacing, R(5)))
             centerY == RSub(RSub(TotalHeight(layout, config), config.margin),
                             RMul(config.gridSpacing, R(5)))
         IN  AllOnGrid(PointsBeforeSimplification(path,
                           RSub(centerX, Half(RAdd(path.bbox.x1, path.bbox.x2))),
                           RSub(centerY, Half(RAdd(path.bbox.y1, path.bbox.y2))), R(1)))

(***************************************************************************)
(* Properties of one export (specification Spec).                          *)
(***************************************************************************)

\* C1: in one run of exportGridToDXF the handles of the emitted entities are
\* strictly increasing in the order the entities are appended (grid lines,
\* letter segments cell by cell, border lines), hence no two are equal.
\* addVectorPaths sets handleCounter.value back to result.nextHandle after
\* convertPolylinesToLines advanced it once per LINE, so this fails.
C1_HandlesStrictlyIncreasing ==
    \A i \in 1..(Len(entities) - 1) : entities[i].handle < entities[i + 1].handle

\* C2: no coordinate of an emitted entity is NaN or infinite, whatever the
\* configuration.  Grid lines and border lines are written by dxfLine
\* without validation, so a non-finite margin or spacing fails this.
C2_CoordinatesFinite ==
    \A i \in 1..Len(entities) :
        /\ IsFinite(entities[i].x1) /\ IsFinite(entities[i].y1)
        /\ IsFinite(entities[i].x2) /\ IsFinite(entities[i].y2)

\* C3: every contour pathToDXFEntities emits for a sub-path that ends with
\* ClosePath has its first point as its last point.  (Every sub-path of the
\* glyphs here ends with ClosePath.)  The grouping loop drops the Z command,
\* so no closing point is ever appended and this fails.
C3_ContoursClosed ==
    \A i \in 1..Len(lastResult) :
        lastResult[i].type = "LWPOLYLINE" =>
            lastResult[i].points[1] = lastResult[i].points[Len(lastResult[i].points)]

\* the export has left the loops of addVectorPaths
LettersDone ==
    /\ pc \in {"border", "done", "rejected"}
    /\ config.useVectorPaths /\ ~config.testMode

\* the entities in the output that cell (r, c) contributed
EntitiesOfCell(r, c) ==
    { i \in 1..Len(entities) :
        entities[i].src = "letter" /\ entities[i].row = r /\ entities[i].col = c }

\* cellLog covers the cells of the grid in row-major order up to entry k
LogInOrder(k) ==
    /\ cellLog[k].row = (k - 1) \div layout.gridWidth
    /\ cellLog[k].col = (k - 1) % layout.gridWidth
    /\ cellLog[k].letter = grid[cellLog[k].row + 1][cellLog[k].col + 1]

\* C4: a failure while processing one cell's glyph (scaled extraction gives
\* nothing, getBoundingBox throws, pathToDXFEntities throws) is caught: the
\* cell contributes no entity and leaves the handle counter alone, the loop
\* goes on through every cell of the grid, every cell whose glyph is
\* processed has all its LINE entities in the output, and the healthy
\* letters A, W, O are processed whatever happened to the cells before them.
C4_GlyphFailureIsSkipped ==
    LettersDone =>
        /\ Len(cellLog) = layout.gridHeight * layout.gridWidth
        /\ \A k \in 1..Len(cellLog) :
             /\ LogInOrder(k)
             /\ cellLog[k].outcome = "error" =>
                   /\ EntitiesOfCell(cellLog[k].row, cellLog[k].col) = {}
                   /\ cellLog[k].after = cellLog[k].before
             /\ cellLog[k].outcome = "ok" =>
                   Cardinality(EntitiesOfCell(cellLog[k].row, cellLog[k].col)) = cellLog[k].lines
             /\ cellLog[k].letter \in {"A", "W", "O"} => cellLog[k].outcome = "ok"
             /\ font.kind = "real" /\ cellLog[k].letter \in {"!", "#", "%"} =>
                   cellLog[k].outcome = "error"

\* C4 witness: an export that finished although a cell's glyph failed, with
\* a later cell's segments in the output
C4_FailureThenLetters ==
    /\ pc = "done" /\ LettersDone
    /\ \E k \in 1..Len(cellLog), m \in 1..Len(cellLog) :
         /\ k < m
         /\ cellLog[k].outcome = "error"
         /\ cellLog[m].outcome = "ok"
         /\ cellLog[m].lines > 0
         /\ EntitiesOfCell(cellLog[m].row, cellLog[m].col) # {}

\* C5: when the font has no glyph for a cell's character ("?" in a loaded
\* font) extractGlyphPath returns null without throwing: the cell emits no
\* entity, the handle counter is the same after the cell as before, and the
\* loop still covers the whole grid with the segments of the cells it
\* processed in the output.
C5_MissingGlyphIsSkipped ==
    /\ \A k \in 1..Len(cellLog) :
         font.kind = "real" /\ cellLog[k].letter = "?" =>
            /\ cellLog[k].outcome = "nopath"
            /\ cellLog[k].lines = 0
            /\ cellLog[k].after = cellLog[k].before
            /\ EntitiesOfCell(cellLog[k].row, cellLog[k].col) = {}
    /\ LettersDone /\ (\E k \in 1..Len(cellLog) : cellLog[k].letter = "?") =>
         /\ Len(cellLog) = layout.gridHeight * layout.gridWidth
         /\ \A m \in 1..Len(cellLog) :
              cellLog[m].outcome = "ok" =>
                 Cardinality(EntitiesOfCell(cellLog[m].row, cellLog[m].col)) = cellLog[m].lines

\* C5 witness: a finished export with a loaded font, a cell holding "?" and
\* a later cell whose segments are in the output
C5_MissingGlyphThenLetters ==
    /\ pc = "done" /\ LettersDone /\ font.kind = "real"
    /\ \E k \in 1..Len(cellLog), m \in 1..Len(cellLog) :
         /\ k < m
         /\ cellLog[k].letter = "?" /\ cellLog[k].outcome = "nopath"
         /\ cellLog[m].outcome = "ok" /\ cellLog[m].lines > 0

\* the font the fallback chain names for a request, from the outcomes of the
\* fetches: the named font, else Arial, else the synthetic font
ChainFont(name) ==
    IF avail[name] THEN [kind |-> "real", name |-> name]
    ELSE IF avail["Arial"] THEN [kind |-> "real", name |-> "Arial"]
    ELSE [kind |-> "synthetic", name |-> ""]

\* the export is past getFont
HasFont ==
    /\ NeedsFont(config)
    /\ pc \in {"letters", "testLetter", "border", "done", "rejected"}

\* C6 (as amended): for a font name that has a font configuration the export
\* draws with the named font if its fetch succeeds, otherwise with Arial if
\* Arial's fetch succeeds, otherwise with the synthetic font; for a name
\* without a font configuration loadFont returns null without any fetch and
\* the export draws with the synthetic font, whether or not Arial could be
\* fetched.  The export rejects only after its font was obtained: no fetch
\* failure makes it reject.
C6_FallbackChainForConfiguredNames ==
    /\ HasFont =>
         /\ font.kind # "null"
         /\ [kind |-> font.kind, name |-> font.name] =
               IF config.fontName \in fontConfigs THEN ChainFont(config.fontName)
               ELSE [kind |-> "synthetic", name |-> ""]
    /\ pc = "rejected" /\ NeedsFont(config) => task.done

\* C6 as stated: the chain named font -> Arial -> synthetic font for every
\* requested font name
C6_FallbackChainForEveryName ==
    HasFont => [kind |-> font.kind, name |-> font.name] = ChainFont(config.fontName)

\* C6 witness: a finished export that asked for a configured font whose
\* fetch failed and drew with Arial
C6_ArialAfterNamedFontFailed ==
    /\ pc = "done" /\ HasFont
    /\ config.fontName \in fontConfigs /\ config.fontName # "Arial"
    /\ ~avail[config.fontName]
    /\ font.kind = "real" /\ font.name = "Arial"

\* the padding after the clamp lies in [0, 0.49]
PaddingClamped(cfg) ==
    /\ MarginPct(cfg) = R(0) \/ RLt(R(0), MarginPct(cfg))
    /\ MarginPct(cfg) = Q(49, 100) \/ RLt(MarginPct(cfg), Q(49, 100))

\* the bounding-box height of the outline extracted for log entry k, and
\* whether it is the number t (NaN equals nothing)
FittedHeight(k) == RSub(cellLog[k].bounds.y2, cellLog[k].bounds.y1)

IsNumber(a, t) == a # NaN /\ t # NaN /\ a = t

\* C10 (as amended): for a cell height spacingY > 0 and a padding that is a
\* number (any finite or infinite value, not NaN), the padding is clamped
\* to p in [0, 0.49] and the outline extracted at fontSizeForTarget has
\* bounding-box height targetHeight = spacingY * (1 - 2 * p).
C10_FittedHeightIsTarget ==
    \A k \in 1..Len(cellLog) :
        /\ cellLog[k].outcome = "ok"
        /\ RLt(R(0), SpacingY(config))
        /\ config.letterPaddingPercent # NaN
        => /\ PaddingClamped(config)
           /\ IsNumber(FittedHeight(k),
                       RMul(SpacingY(config), RSub(R(1), RMul(R(2), MarginPct(config)))))

\* C10 as stated: the same for every padding value.  A padding of NaN
\* passes through Math.min and Math.max, so p, targetHeight and the font
\* size are NaN.
C10_FittedHeightIsTargetForEveryPadding ==
    \A k \in 1..Len(cellLog) :
        /\ cellLog[k].outcome = "ok"
        /\ RLt(R(0), SpacingY(config))
        => /\ PaddingClamped(config)
           /\ IsNumber(FittedHeight(k),
                       RMul(SpacingY(config), RSub(R(1), RMul(R(2), MarginPct(config)))))

\* C10 witness: the synthetic glyph fitted into a 5 mm cell with a padding
\* of 0.6, clamped to 0.49: its height is 2 % of the cell
C10_ClampedPaddingFitted ==
    \E k \in 1..Len(cellLog) :
        /\ cellLog[k].outcome = "ok"
        /\ font.kind = "synthetic"
        /\ config.letterPaddingPercent = Q(6, 10)
        /\ SpacingY(config) = R(5)
        /\ FittedHeight(k) = Q(1, 10)

(***************************************************************************)
(* Properties of the font loader under concurrent callers (specification   *)
(* SpecFont).                                                              *)
(***************************************************************************)

\* the fetches for font name n that are in flight
InFlight(n) ==
    Cardinality({ ik \in CallIds \X (1..2) :
                    /\ ik[2] <= Len(calls[ik[1]].tasks)
                    /\ calls[ik[1]].tasks[ik[2]].cur = n })
    + (IF pc = "fetching" /\ task.cur = n THEN 1 ELSE 0)

\* call i is a loadFont or getFont for n that found n in the cache and has
\* its result
CachedResult(i, n) ==
    /\ calls[i].kind \in {"loadFont", "getFont"}
    /\ calls[i].name = n
    /\ calls[i].hit
    /\ calls[i].tasks[1].done

\* C7: in a sequence of loadFont and getFont calls (preloadFonts never
\* called), calls for N that start after a font was stored under N return
\* the one stored instance: any two of them return the same instance, and
\* none of them fetches.  Two loads that overlapped before the first store
\* each store their own instance, so this fails.
C7_LaterLoadsReturnStoredInstance ==
    preloads = 0 =>
        \A n \in FontNames : \A i \in CallIds, j \in CallIds :
            CachedResult(i, n) /\ CachedResult(j, n) =>
                calls[i].tasks[1].font = calls[j].tasks[1].font

\* C8: at most one fetch per font name is in flight at any time, whoever
\* asked (loadFont, getFont, the Arial fallback, preloadFonts, the export).
\* loadFont keeps no record of loads in flight, so this fails.
C8_SingleFlight == \A n \in FontNames : InFlight(n) <= 1

\* C9: a name in the font cache stays in the cache, mapped to the same font
\* instance, in every later state.  preloadFonts clears the cache and an
\* overlapping load replaces the stored instance, so this fails.
C9_CacheNeverEvicted ==
    [][\A n \in FontNames : fontCache[n] # 0 => fontCache'[n] = fontCache[n]]_vars

(***************************************************************************)
(* Placement, border, grid lines and document (specification Spec).        *)
(***************************************************************************)

\* the least and the greatest of a non-empty set of numbers
Least(S) == CHOOSE a \in S : \A b \in S : ~RLt(b, a)

Greatest(S) == CHOOSE a \in S : \A b \in S : ~RLt(a, b)

\* the x and the y coordinates of the LINE entities cell (r, c) contributed
CellXs(r, c) ==
    { entities[i].x1 : i \in EntitiesOfCell(r, c) } \cup
    { entities[i].x2 : i \in EntitiesOfCell(r, c) }

CellYs(r, c) ==
    { entities[i].y1 : i \in EntitiesOfCell(r, c) } \cup
    { entities[i].y2 : i \in EntitiesOfCell(r, c) }

\* the stretch factors the placement is stated for
StatedStretches == {Q(1, 2), R(1), Q(155, 100), R(2)}

\* C11: for every cell whose glyph was emitted with an effective stretch s
\* in {0.5, 1, 1.55, 2}: when centerHorizontally is true the midpoint of
\* the emitted horizontal extent is the cell's centre
\* margin + (col + 0.5) * spacingX, and when it is false the emitted left
\* edge is the cell's left edge margin + col * spacingX.
C11_HorizontalPlacement ==
    \A k \in 1..Len(cellLog) :
        /\ cellLog[k].outcome = "ok" /\ cellLog[k].lines > 0
        /\ EffectiveStretch(config, cellLog[k].letter) \in StatedStretches
        => \E xs \in {CellXs(cellLog[k].row, cellLog[k].col)} :
             IF config.centerHorizontally
             THEN Half(RAdd(Least(xs), Greatest(xs))) = CellCx(config, cellLog[k].col)
             ELSE Least(xs) = RAdd(config.margin, RMul(R(cellLog[k].col), SpacingX(config)))

\* C11 witness: a glyph emitted with stretch 1.55, centred, in column 1
C11_StretchedGlyphCentred ==
    \E k \in 1..Len(cellLog) :
        /\ cellLog[k].outcome = "ok" /\ cellLog[k].lines > 0
        /\ cellLog[k].col = 1
        /\ config.centerHorizontally
        /\ EffectiveStretch(config, cellLog[k].letter) = Q(155, 100)
        /\ Greatest(CellXs(cellLog[k].row, cellLog[k].col)) #
              Least(CellXs(cellLog[k].row, cellLog[k].col))

\* C12: for every cell whose glyph was emitted, the midpoint of the emitted
\* vertical extent is the cell's vertical centre
\* cy = totalHeight - margin - (row + 0.5) * spacingY, whatever
\* centerHorizontally and the stretch factor are.
C12_VerticalPlacementCentred ==
    \A k \in 1..Len(cellLog) :
        cellLog[k].outcome = "ok" /\ cellLog[k].lines > 0 =>
            \E ys \in {CellYs(cellLog[k].row, cellLog[k].col)} :
                Half(RAdd(Least(ys), Greatest(ys))) = CellCy(layout, config, cellLog[k].row)

\* C12 witness: a glyph of a loaded font emitted in row 1 with left
\* alignment, its vertical extent not empty
C12_LeftAlignedGlyphCentredVertically ==
    \E k \in 1..Len(cellLog) :
        /\ cellLog[k].outcome = "ok" /\ cellLog[k].lines > 0
        /\ cellLog[k].row = 1
        /\ font.kind = "real"
        /\ ~config.centerHorizontally
        /\ Greatest(CellYs(cellLog[k].row, cellLog[k].col)) #
              Least(CellYs(cellLog[k].row, cellLog[k].col))

\* the export has run to its end (the download succeeded or threw)
ExportEnded == pc \in {"done", "rejected"}

\* the positions in the output of the entities pushed by src
EntitiesFrom(src) == { i \in 1..Len(entities) : entities[i].src = src }

\* entity i is a LINE from (xa, ya) to (xb, yb)
IsLine(i, xa, ya, xb, yb) ==
    /\ entities[i].type = "LINE"
    /\ entities[i].x1 = xa /\ entities[i].y1 = ya
    /\ entities[i].x2 = xb /\ entities[i].y2 = yb

\* C13: with addBorder on, the finished export's last four entities are the
\* LINE entities of the closed rectangle (m, m) -> (m + cols * spacingX, m)
\* -> (m + cols * spacingX, m + rows * spacingY) -> (m, m + rows * spacingY)
\* -> (m, m), m being the margin, and no other entity is a border line; with
\* addBorder off, and before the letters are done, there is no border line.
C13_BorderRectangle ==
    \E m \in {config.margin} :
      \E xr \in {RAdd(m, RMul(R(layout.gridWidth), SpacingX(config)))},
         yt \in {RAdd(m, RMul(R(layout.gridHeight), SpacingY(config)))},
         n  \in {Len(entities)} :
        IF ExportEnded /\ config.addBorder
        THEN /\ EntitiesFrom("border") = (n - 3)..n
             /\ n >= 4
             /\ IsLine(n - 3, m, m, xr, m)
             /\ IsLine(n - 2, xr, m, xr, yt)
             /\ IsLine(n - 1, xr, yt, m, yt)
             /\ IsLine(n, m, yt, m, m)
        ELSE EntitiesFrom("border") = {}

\* C13 witness: a finished export of the 2 x 2 grid with spacing 5 and
\* margin 2 whose border follows letter segments and has the corners
\* (2, 2), (12, 2), (12, 12), (2, 12)
C13_BorderAfterLetters ==
    /\ pc = "done" /\ config.addBorder
    /\ layout.gridWidth = 2 /\ layout.gridHeight = 2
    /\ EntitiesFrom("letter") # {}
    /\ Len(entities) >= 4
    /\ IsLine(Len(entities) - 3, R(2), R(2), R(12), R(2))
    /\ IsLine(Len(entities) - 2, R(12), R(2), R(12), R(12))
    /\ IsLine(Len(entities) - 1, R(12), R(12), R(2), R(12))
    /\ IsLine(Len(entities), R(2), R(12), R(2), R(2))

\* C14: once the export has started, with addGridLines on its first
\* cols + 1 entities are the vertical LINEs at x = margin + c * spacingX
\* (c = 0..cols) from y = margin to y = margin + rows * spacingY, the next
\* rows + 1 are the horizontal LINEs at y = margin + r * spacingY
\* (r = 0..rows) from x = margin to x = margin + cols * spacingX, and no
\* other entity is a grid line; with addGridLines off there is no grid line.
C14_GridLines ==
    pc # "idle" =>
      \E m \in {config.margin}, cols \in {layout.gridWidth}, rows \in {layout.gridHeight} :
        \E xr \in {RAdd(m, RMul(R(cols), SpacingX(config)))},
           yt \in {RAdd(m, RMul(R(rows), SpacingY(config)))} :
          IF config.addGridLines
          THEN /\ EntitiesFrom("grid") = 1..(cols + 1 + rows + 1)
               /\ \A c \in 0..cols :
                    \E x \in {RAdd(m, RMul(R(c), SpacingX(config)))} :
                       IsLine(c + 1, x, m, x, yt)
               /\ \A r \in 0..rows :
                    \E y \in {RAdd(m, RMul(R(r), SpacingY(config)))} :
                       IsLine(cols + 1 + r + 1, m, y, xr, y)
          ELSE EntitiesFrom("grid") = {}

\* C14 witness: a finished export of the 2 x 2 grid with 3 + 3 grid lines,
\* the last vertical one from (12, 2) to (12, 12), and letter segments
C14_GridLinesOfTwoByTwo ==
    /\ pc = "done" /\ config.addGridLines
    /\ layout.gridWidth = 2 /\ layout.gridHeight = 2
    /\ Cardinality(EntitiesFrom("grid")) = 6
    /\ IsLine(3, R(12), R(2), R(12), R(12))
    /\ EntitiesFrom("letter") # {}

\* the positions of the groups (code, value) in the document
GroupsAt(code, value) ==
    { i \in 1..Len(document) :
        /\ document[i].type = "GROUP"
        /\ document[i].code = code /\ document[i].value = value }

\* C15: the document of every export that ran to its end opens one section,
\* ENTITIES, holds the entities in emission order, closes the section with
\* ENDSEC and ends with EOF; it has no other section (no HEADER, TABLES,
\* BLOCKS, OBJECTS), in test mode and with no entity as well.
C15_EntitiesOnlyDocument ==
    ExportEnded =>
      \E n \in {Len(entities)} :
        /\ Len(document) = n + 4
        /\ GroupsAt("0", "SECTION") = {1}
        /\ GroupsAt("2", "ENTITIES") = {2}
        /\ \A i \in 1..n : document[i + 2] = entities[i]
        /\ GroupsAt("0", "ENDSEC") = {n + 3}
        /\ GroupsAt("0", "EOF") = {n + 4}
        /\ \A name \in {"HEADER", "TABLES", "BLOCKS", "OBJECTS"} : GroupsAt("2", name) = {}

\* C15 witness: the document of a finished test-mode export with entities
C15_TestModeDocument ==
    /\ pc = "done" /\ config.testMode
    /\ Len(entities) > 0
    /\ Len(document) = Len(entities) + 4
    /\ document[Len(document)] = Group("0", "EOF")

\* C16: every coordinate of every emitted entity is written with
\* toFixed(6).  dxfLine, createSimpleTestLines and createFallbackSquare
\* write their coordinates with toString (shortest representation,
\* scientific notation for small and large numbers), so this fails for grid
\* lines, border lines and the test shapes.
C16_CoordinatesFixedPoint ==
    \A i \in 1..Len(entities) : entities[i].fmt = "toFixed6"

(***************************************************************************)
(* Letters after a failed font load.                                       *)
(***************************************************************************)
\* getFont gave null to the export: the name has no font configuration, or
\* its fetch and the fetch of Arial both failed
FontLoadFailed ==
    /\ LettersDone
    /\ task.done /\ task.font.kind = "null"

\* the sizes of the configuration are finite numbers
FiniteGeometry(cfg) ==
    \A f \in {"gridSpacing", "gridSpacingY", "margin", "letterSize", "letterPaddingPercent",
               "horizontalStretch", "wStretch"} : IsFinite(cfg[f])

NonBlankCells ==
    { k \in 1..Len(cellLog) : cellLog[k].letter # " " }

NearestFive(m) == CHOOSE r \in {5 * k : k \in 0..12} : r - m \in -2..2

FragmentLayouts == {"GraceGPT", "GraceGPT2", "Auto Layout", "Updated Layout"}

C19_RemoveColinearIdempotent ==
    twice.run => twice.points = once.points

\* C19 witness: a second pass that drops a point the first pass kept
C19_SecondPassDropsAPoint ==
    /\ twice.run
    /\ Len(twice.points) < Len(once.points)

\* the indexes of the input that simplifyPolyline retained, in order
RetainedAt(j) == simplified.points[j].idx

\* distance from p to the segment a b is at most tol (exact, in grid units)
WithinTolOfSegment(p, a, b, tol) ==
    \E px \in {GridOf(p.x) - GridOf(a.x)}, py \in {GridOf(p.y) - GridOf(a.y)},
       dx \in {GridOf(b.x) - GridOf(a.x)}, dy \in {GridOf(b.y) - GridOf(a.y)},
       t  \in {GridOf(tol)} :
      \E dot \in {px * dx + py * dy}, len2 \in {dx * dx + dy * dy} :
        IF len2 = 0 \/ dot <= 0 THEN px * px + py * py <= t * t
        ELSE IF dot >= len2 THEN (px - dx) * (px - dx) + (py - dy) * (py - dy) <= t * t
        ELSE ~ExceedsSqrt(Abs(dy * px - dx * py), t, len2)

\* C20: every finite point that simplifyPolyline removes is within tol of
\* the segment joining the two consecutive retained points between which it
\* lay in the input.  simplifyPolyline measures the distance to the
\* unbounded line through the chord's ends, so a point beyond an end of the
\* chord is removed however far from the segment it is.
C20_RemovedWithinTolOfSegment ==
    simplified.run =>
      \A j \in 1..(Len(simplified.points) - 1) :
        \A i \in (RetainedAt(j) + 1)..(RetainedAt(j + 1) - 1) :
          ValidPoint(inputPoints[i]) =>
            WithinTolOfSegment(inputPoints[i], inputPoints[RetainedAt(j)],
                               inputPoints[RetainedAt(j + 1)], inputTolerance)

\* C20 witness: a removed point that lies on the line through the two
\* retained points around it and more than tol away from their segment
C20_RemovedPointBeyondChord ==
    /\ simplified.run
    /\ Len(inputPoints) = 3 /\ Len(simplified.points) = 2
    /\ \A i \in 1..3 : ValidPoint(inputPoints[i])
    /\ ~WithinTolOfSegment(inputPoints[2], inputPoints[1], inputPoints[3], inputTolerance)

(***************************************************************************)
(* Serializer functions.                                                   *)
(***************************************************************************)
\* the contours of PathOf(inputPoints): the index sets of their points
Contours ==
    { S \in { {i \in 1..Len(inputPoints) : i <= 2}, {i \in 1..Len(inputPoints) : i >= 3} } :
        S # {} }

FinitePointsOf(S) == { i \in S : ValidPoint(inputPoints[i]) }

\* C21: a contour with fewer than 2 finite points is never serialized:
\* createDXFPolyline returns the empty record for fewer than 2 finite points,
\* pathToDXFEntities returns one polyline (of 2 or more finite points) per
\* contour with 2 or more finite points and none for the others, and
\* nextHandle - startHandle equals the number of entities returned.
C21_ShortContoursDropped ==
    serialized.run =>
      /\ serialized.polyline = EmptyEntity <=> Cardinality(FinitePointsOf(1..Len(inputPoints))) < 2
      /\ serialized.nextHandle - FirstHandle = Len(serialized.entities)
      /\ Len(serialized.entities) =
             Cardinality({ S \in Contours : Cardinality(FinitePointsOf(S)) >= 2 })
      /\ \A k \in 1..Len(serialized.entities) :
           /\ serialized.entities[k].type = "LWPOLYLINE"
           /\ serialized.entities[k].handle = FirstHandle + k - 1
           /\ Len(serialized.entities[k].points) >= 2
           /\ \A i \in 1..Len(serialized.entities[k].points) :
                  ValidPoint(serialized.entities[k].points[i])

\* C21 witness: a path whose first contour has a single finite point and
\* whose second contour is serialized with the start handle
C21_DroppedContourBeforeKeptOne ==
    /\ serialized.run
    /\ Len(inputPoints) = 4
    /\ Cardinality(FinitePointsOf({1, 2})) = 1
    /\ Len(serialized.entities) = 1
    /\ serialized.entities[1].handle = FirstHandle
    /\ serialized.nextHandle = FirstHandle + 1

\* the finite vertices of the polyline handed to convertPolylinesToLines, as
\* written with toFixed(6)
ValidVertices ==
    The({ [i \in 1..Len(v) |-> Pt(ToFixed6(v[i].x), ToFixed6(v[i].y))] \o <<>> :
          v \in {SelectValid(inputPoints)} })

\* C22: a polyline with n >= 2 valid vertices becomes exactly n LINE
\* entities, the i-th from v_i to v_((i+1) mod n), the last one closing the
\* ring; with fewer than 2 valid vertices it becomes none; vertices with
\* non-finite coordinates are left out; entities that are no polylines pass
\* through unchanged and in place.
C22_PolylineToLines ==
    converted.run =>
      \E v \in {ValidVertices} :
        \E n \in {IF Len(v) >= 2 THEN Len(v) ELSE 0} :
          /\ Len(converted.lines) = n + 2
          /\ converted.lines[1] = MixedEntities(inputPoints)[1]
          /\ converted.lines[n + 2] = MixedEntities(inputPoints)[3]
          /\ \A i \in 1..n :
               \E l \in {converted.lines[i + 1]} :
                 /\ l.type = "LINE"
                 /\ Pt(l.x1, l.y1) = v[i]
                 /\ Pt(l.x2, l.y2) = v[(i % n) + 1]

\* C22 witness: a polyline of four vertices, one of them NaN, converted to
\* three LINE entities between the two other entities
C22_ThreeLinesFromFourVertices ==
    /\ converted.run
    /\ Len(inputPoints) = 4 /\ Len(SelectValid(inputPoints)) = 3
    /\ Len(converted.lines) = 5
    /\ Pt(converted.lines[4].x2, converted.lines[4].y2) = ValidVertices[1]

(***************************************************************************)
(* Row-to-Y inversion.                                                     *)
(***************************************************************************)
\* the centre the statement gives for cell (r, c) of the export under way
StatedCx(c) == RAdd(config.margin, RMul(Q(2 * c + 1, 2), config.gridSpacing))

StatedCy(r) ==
    RSub(RSub(RAdd(RMul(R(2), config.margin), RMul(R(layout.gridHeight), config.gridSpacingY)),
              config.margin),
         RMul(Q(2 * r + 1, 2), config.gridSpacingY))

\* the cells whose glyph was emitted
EmittedCells == { k \in 1..Len(cellLog) : cellLog[k].outcome = "ok" /\ cellLog[k].lines > 0 }

\* the vertical midpoint of what cell k emitted
EmittedMidY(k) ==
    The({ Half(RAdd(Least(ys), Greatest(ys))) : ys \in {CellYs(cellLog[k].row, cellLog[k].col)} })

BorderXs == { entities[i].x1 : i \in EntitiesFrom("border") }
BorderYs == { entities[i].y1 : i \in EntitiesFrom("border") }

\* (x, y) lies strictly inside the border rectangle as emitted
InsideBorder(x, y) ==
    /\ RLt(Least(BorderXs), x) /\ RLt(x, Greatest(BorderXs))
    /\ RLt(Least(BorderYs), y) /\ RLt(y, Greatest(BorderYs))

PositiveSpacing(f) == IsFinite(config[f]) /\ RLt(Zero, config[f])

\* every emitted glyph is centred vertically on the stated cy, and for
\* spacingY > 0 a glyph of a lower row index lies higher
RowsInverted ==
    /\ \A k \in EmittedCells : EmittedMidY(k) = StatedCy(cellLog[k].row)
    /\ PositiveSpacing("gridSpacingY") =>
         \A k1, k2 \in EmittedCells :
             cellLog[k1].row < cellLog[k2].row => RLt(EmittedMidY(k2), EmittedMidY(k1))

\* C23 (as amended): the glyph of cell (row, col) is centred vertically on
\* cy = totalHeight - margin - (row + 0.5) * spacingY with totalHeight =
\* 2 * margin + rows * spacingY, so for spacingY > 0 row 0 gets the largest Y
\* and Y strictly decreases as the row index grows; and when spacingX > 0
\* and spacingY > 0 every cell centre (margin + (col + 0.5) * spacingX, cy)
\* lies strictly inside the border rectangle that is emitted.
C23_RowToYInversion ==
    /\ RowsInverted
    /\ pc = "done" /\ config.addBorder /\ IsFinite(config.margin)
         /\ PositiveSpacing("gridSpacing") /\ PositiveSpacing("gridSpacingY") =>
           \A r \in 0..(layout.gridHeight - 1), c \in 0..(layout.gridWidth - 1) :
               InsideBorder(StatedCx(c), StatedCy(r))

\* C23 as stated: every cell centre lies strictly inside the border
\* rectangle, whatever the spacings are
C23_CentreInsideBorderForEverySpacing ==
    /\ RowsInverted
    /\ pc = "done" /\ config.addBorder /\ IsFinite(config.margin)
         /\ IsFinite(config.gridSpacing) /\ IsFinite(config.gridSpacingY) =>
           \A r \in 0..(layout.gridHeight - 1), c \in 0..(layout.gridWidth - 1) :
               InsideBorder(StatedCx(c), StatedCy(r))

\* C23 witness: a finished export with a border and glyphs emitted in rows
\* 0 and 1, the one of row 0 higher
C23_RowZeroOnTop ==
    /\ pc = "done" /\ config.addBorder
    /\ PositiveSpacing("gridSpacing") /\ PositiveSpacing("gridSpacingY")
    /\ \E k1, k2 \in EmittedCells :
         /\ cellLog[k1].row = 0 /\ cellLog[k2].row = 1
         /\ RLt(EmittedMidY(k2), EmittedMidY(k1))
         /\ InsideBorder(StatedCx(cellLog[k1].col), EmittedMidY(k1))

(***************************************************************************)
(* Per-character stretch.                                                  *)
(***************************************************************************)
\* the factor the statement gives for a character
StatedStretch(letter) ==
    IF letter \in {"W", "w"} THEN RMul(config.horizontalStretch, config.wStretch)
    ELSE config.horizontalStretch

Extent(S) == RSub(Greatest(S), Least(S))

\* C24: the outline emitted for a cell is the glyph's outline stretched in X
\* by horizontalStretch * wStretch when the character is W or w and by
\* horizontalStretch for every other character, and not changed in Y: its
\* width is the width of the glyph's bounds times that factor, its height
\* the height of the glyph's bounds.
C24_PerCharacterStretch ==
    \A k \in EmittedCells :
        \E b \in {cellLog[k].bounds} :
            /\ Extent(CellXs(cellLog[k].row, cellLog[k].col)) =
                   RMul(RSub(b.x2, b.x1), StatedStretch(cellLog[k].letter))
            /\ Extent(CellYs(cellLog[k].row, cellLog[k].col)) = RSub(b.y2, b.y1)

\* C24 witness: a lower-case w and another character emitted in one export
\* whose wStretch and horizontalStretch both differ from 1
C24_LowerCaseWStretched ==
    /\ config.wStretch # R(1) /\ config.horizontalStretch # R(1)
    /\ \E k1, k2 \in EmittedCells :
         /\ cellLog[k1].letter = "w"
         /\ cellLog[k2].letter \notin {"W", "w"}

(***************************************************************************)
(* The full document.                                                      *)
(***************************************************************************)
\* the strings that are group codes
GroupCodes ==
    {"0", "1", "2", "3", "4", "5", "6", "8", "9", "10", "11", "20", "21", "30", "31", "40", "41",
     "42", "50", "62", "70", "71", "100"}

\* record k of a document: its k-th pair of lines
RecordAt(lines, k) == <<lines[2 * k - 1], lines[2 * k]>>

\* the records of the document that are <<code, value>> for a value of the set
RecordsOf(lines, code, values) ==
    { k \in 1..(Len(lines) \div 2) : lines[2 * k - 1] = code /\ lines[2 * k] \in values }

\* the names that follow the openers (SECTION or TABLE records), in order
RECURSIVE NamesAfter(_, _, _)
NamesAfter(lines, opener, k) ==
    IF 2 * k > Len(lines) THEN <<>>
    ELSE IF RecordAt(lines, k) = <<"0", opener>> /\ 2 * (k + 1) <= Len(lines)
    THEN <<lines[2 * (k + 1)]>> \o NamesAfter(lines, opener, k + 1)
    ELSE NamesAfter(lines, opener, k + 1)

\* openers and closers alternate, an opener first and a closer last
Alternate(lines, opener, closer) ==
    \E marks \in {RecordsOf(lines, "0", {opener, closer})} :
        /\ \A k \in marks :
             lines[2 * k] = opener <=> Cardinality({ j \in marks : j < k }) % 2 = 0
        /\ Cardinality(marks) % 2 = 0

\* C25: what buildFullDXF returns is a sequence of (group code, value) line
\* pairs without a stray line, with the sections HEADER, TABLES, ENTITIES,
\* BLOCKS, OBJECTS in this order, the tables LAYER, STYLE, VIEW, UCS, APPID,
\* every SECTION closed by ENDSEC and every TABLE by ENDTAB before the next
\* opens, and EOF as the last record; for every entity list, the empty one
\* included.  For the empty list entities.join gives the empty string and
\* the template leaves an empty line between ENTITIES and ENDSEC, after which
\* codes and values have changed places.
C25_FullDocumentWellFormed ==
    fullDocument.run =>
      \E lines \in {fullDocument.lines} :
        /\ Len(lines) % 2 = 0
        /\ \A k \in 1..(Len(lines) \div 2) : lines[2 * k - 1] \in GroupCodes
        /\ NamesAfter(lines, "SECTION", 1) = <<"HEADER", "TABLES", "ENTITIES", "BLOCKS", "OBJECTS">>
        /\ NamesAfter(lines, "TABLE", 1) = <<"LAYER", "STYLE", "VIEW", "UCS", "APPID">>
        /\ Alternate(lines, "SECTION", "ENDSEC")
        /\ Alternate(lines, "TABLE", "ENDTAB")
        /\ RecordAt(lines, Len(lines) \div 2) = <<"0", "EOF">>

\* C25 witness: the document of the empty entity list, with an empty line
\* where a group code belongs
C25_EmptyListLeavesEmptyLine ==
    /\ fullDocument.run
    /\ inputEntities = <<>>
    /\ \E i \in 1..Len(fullDocument.lines) : i % 2 = 1 /\ fullDocument.lines[i] = ""

\* the documents of the entity lists that are not empty are well formed
FullDocumentOfEntitiesWellFormed ==
    Len(inputEntities) > 0 => C25_FullDocumentWellFormed

(***************************************************************************)
(* Endpoints and order in the simplification passes.                       *)
(***************************************************************************)
\* a is b with some elements left out, the order kept
RECURSIVE IsSubsequence(_, _)
IsSubsequence(a, b) ==
    IF a = <<>> THEN TRUE
    ELSE IF b = <<>> THEN FALSE
    ELSE IF Head(a) = Head(b) THEN IsSubsequence(Tail(a), Tail(b))
    ELSE IsSubsequence(a, Tail(b))

WithoutIndex(ps) == [i \in 1..Len(ps) |-> Pt(ps[i].x, ps[i].y)] \o <<>>

\* out keeps the ends and the order of the finite points of the input
KeepsEndsAndOrder(out) ==
    \E finite \in {SelectValid(inputPoints)} :
        /\ Len(out) >= 2
        /\ IsSubsequence(out, finite)
        /\ out[1] = finite[1]
        /\ out[Len(out)] = finite[Len(finite)]

\* C26: for every input with at least 2 finite points, what
\* removeColinearPoints and simplifyPolyline return is a subsequence, in
\* order, of the finite points of the input, starts with the input's first
\* finite point, ends with its last finite point and has 2 points or more.
C26_EndpointsAndOrderKept ==
    Len(SelectValid(inputPoints)) >= 2 =>
        /\ once.run => KeepsEndsAndOrder(once.points)
        /\ simplified.run =>
             /\ KeepsEndsAndOrder(WithoutIndex(simplified.points))
             /\ \A j \in 1..(Len(simplified.points) - 1) : RetainedAt(j) < RetainedAt(j + 1)

\* C26 witness: both passes ran on four points, the first of them NaN, and
\* each left out a finite point
C26_PointsRemovedEndsKept ==
    /\ once.run /\ simplified.run
    /\ Len(inputPoints) = 4 /\ ~ValidPoint(inputPoints[1])
    /\ Len(SelectValid(inputPoints)) = 3
    /\ Len(once.points) = 2 /\ Len(simplified.points) = 2

(***************************************************************************)
(* Degenerate segments.                                                    *)
(***************************************************************************)
\* the cell addVectorPaths handled last emitted LINE entities, and they are
\* still the last entities of the output
LastCellEmitted ==
    /\ pc \in {"letters", "border"} /\ ~config.testMode
    /\ Len(cellLog) > 0
    /\ cellLog[Len(cellLog)].outcome = "ok" /\ cellLog[Len(cellLog)].lines > 0

RECURSIVE PointsBefore(_)
PointsBefore(e) == IF e <= 1 THEN 0 ELSE Len(lastResult[e - 1].points) + PointsBefore(e - 1)

\* the positions in the output of the LINE entities of contour e of the
\* cell handled last
LinesOfContour(e) ==
    The({ (base + 1)..(base + Len(lastResult[e].points)) :
          base \in {Len(entities) - cellLog[Len(cellLog)].lines + PointsBefore(e)} })

LineEnds(i) == {Pt(entities[i].x1, entities[i].y1), Pt(entities[i].x2, entities[i].y2)}

\* C27: no LINE entity emitted for a letter outline is degenerate: each has
\* a start point different from its end point, and no two LINE entities of
\* one contour join the same pair of points.  A contour whose last point is
\* its first point gets a closing segment from that point to itself, and a
\* contour of two points gets the same segment twice.
C27_NoDegenerateLine ==
    LastCellEmitted =>
        \A e \in 1..Len(lastResult) :
            \E L \in {LinesOfContour(e)} :
                /\ \A i \in L : Pt(entities[i].x1, entities[i].y1) # Pt(entities[i].x2, entities[i].y2)
                /\ \A i, j \in L : i # j => LineEnds(i) # LineEnds(j)

\* C27 witness: the outline of an O of a loaded font, with finite sizes and
\* positive spacings, whose closing segment joins a point to itself
C27_ClosingSegmentOfZeroLength ==
    /\ LastCellEmitted
    /\ cellLog[Len(cellLog)].letter = "O" /\ font.kind = "real"
    /\ FiniteGeometry(config)
    /\ PositiveSpacing("gridSpacing") /\ PositiveSpacing("gridSpacingY")
    /\ \E i \in LinesOfContour(1) :
           Pt(entities[i].x1, entities[i].y1) = Pt(entities[i].x2, entities[i].y2)

(***************************************************************************)
(* C28: preview and export fit a letter alike.                             *)
(***************************************************************************)
BothFitted == previewFit.run /\ exportFit.run

\* C28: for every letter and every font settings record with padding,
\* horizontalStretch >= 0 and wStretch >= 0, VectorLetterCell and
\* addVectorPaths compute the same fitted font size and the same effective
\* horizontal stretch.  The preview reads the stretches with || 1.0 and the
\* export with ?? 1.0, so this fails for a stretch of 0.
C28_PreviewFitsAsExport ==
    BothFitted =>
        /\ previewFit.fontSize = exportFit.fontSize
        /\ previewFit.stretch = exportFit.stretch

\* C28: a horizontalStretch of 0 is 1 in the preview and 0 in the export
C28_ZeroStretchFitsDiffer ==
    /\ BothFitted
    /\ fitInput.settings.horizontalStretch = Zero
    /\ previewFit.stretch # Zero
    /\ exportFit.stretch = Zero

\* C28, where it holds: the fitted font size always agrees, and the stretch
\* agrees when neither stretch setting is 0
PreviewFitsAsExportForNonZeroStretch ==
    BothFitted =>
        /\ previewFit.fontSize = exportFit.fontSize
        /\ (fitInput.settings.horizontalStretch # Zero /\ fitInput.settings.wStretch # Zero)
              => previewFit.stretch = exportFit.stretch

(***************************************************************************)
(* C29: the svgPath of a VectorLetterCell after its loads have finished.   *)
(***************************************************************************)
AllLoadsFinished == \A i \in 1..Len(loads) : loads[i].finished

\* the call started for the props on screen, if one was started
LoadOfProps == IF Len(loads) > 0 /\ loads[Len(loads)].props = props THEN Len(loads) ELSE 0

\* C29: once every started loadAndConvert call has finished, svgPath is the
\* one computed from the most recent props: '' for a blank letter, else
\* what the call started for those props handed to setSvgPath
C29_SvgPathOfLatestProps ==
    AllLoadsFinished =>
        /\ props.letter = " " => svgPath = NoSvgPath
        /\ (LoadOfProps > 0 /\ loads[LoadOfProps].set) => svgPath = loads[LoadOfProps].path

\* C29: two calls were in flight, the later one finished first, and the
\* earlier one then stored the path of its own props
C29_StaleLoadOverwrites ==
    /\ AllLoadsFinished
    /\ Len(loads) = 2
    /\ loads[1].props.letter = "A" /\ props.letter = "W"
    /\ loads[2].set /\ loads[2].path # loads[1].path
    /\ svgPath = loads[1].path

(***************************************************************************)
(* C30: the export handler.                                                *)
(***************************************************************************)
ExportRunning == pc # "idle"

\* C30: handleExport starts an export only when the trimmed filename is not
\* empty (otherwise isExporting stays false and downloadDXF is not called);
\* isExporting is true from the start of the export until the handler
\* settles; a failure thrown by exportGridToDXF reaches the handler, which
\* reports it as an error, and a success is reported as one; and in every
\* case isExporting is eventually false again.
C30_ExportHandlerStateMachine ==
    /\ [](isExporting <=> ExportRunning)
    /\ [][(~ExportRunning /\ Trim(filename) = <<>>) => (~ExportRunning' /\ ~isExporting')]_vars
    /\ [][(~ExportRunning /\ ExportRunning') => (Trim(filename) # <<>> /\ isExporting')]_vars
    /\ [][(pc = "rejected" /\ pc' # "rejected") => (toast' = ExportErrorToast /\ ~isExporting')]_vars
    /\ [][(pc = "done" /\ pc' # "done") => (toast' = DownloadedToast /\ ~isExporting')]_vars
    /\ (isExporting ~> ~isExporting)

\* C30: an export has failed, the handler has reported the error and
\* isExporting is false again
C30_FailureReportedAndSettled ==
    /\ ~ExportRunning /\ ~isExporting
    /\ toast = ExportErrorToast

====
